---- MODULE Spec2Model ----
(***************************************************************************)
(* State-machine model of the breast-ultrasound classification app:       *)
(* the SQLite store (src/src/utils/db_utils.py), the analytics queries    *)
(* (src/src/utils/analytics.py), the registration form (src/app.py) and   *)
(* the prediction page (src/pages/Prediction.py).                         *)
(*                                                                         *)
(* Conventions.  A Python str is a sequence of one-character strings.     *)
(* A nullable value (Python None, SQL NULL) is a sequence of length at    *)
(* most one: <<>> is None/NULL and <<v>> is the value v.  A REAL in [0,1] *)
(* (a confidence, a probability) is an integer number of percent.  A      *)
(* table is the sequence of its rows in rowid order; AUTOINCREMENT ids    *)
(* are 1, 2, ... because no code path deletes a row.                      *)
(***************************************************************************)
EXTENDS Integers, Sequences, FiniteSets, TLC

VARIABLES
    users,            \* table users
    predictions,      \* table predictions
    feedback,         \* table prediction_feedback
    activity,         \* table user_activity
    now,              \* CURRENT_TIMESTAMP, in whole seconds
    bcryptTruncates,  \* which bcrypt the build installed (see BcryptAccepts)
    last,             \* the last call: [op, args, ret, exc]
    registered,       \* history: the <<username, password>> of every create_user that returned True
    logged,           \* history: the arguments of every log_prediction call, by returned id
    page,             \* one browser session on pages/Prediction.py (see PageInit)
    schema,           \* the columns of table predictions and the callers adding columns
    gradcam,          \* the shared model's head and hooks, the GradCAM instances, the calls in progress
    classifier,       \* the class-name file, the weight file and the cached model
    training,         \* train.py main: the epoch loop and what it saved (see TrainingInit)
    conns             \* every connection get_conn opened, in order (see get_conn_enter)

vars == <<users, predictions, feedback, activity, now, bcryptTruncates, last, registered,
          logged, page, schema, gradcam, classifier, training, conns>>

None == <<>>
Some(v) == <<v>>
IsSome(o) == Len(o) = 1
Get(o) == o[1]

Min(a, b) == IF a < b THEN a ELSE b

Range(s) == {s[i] : i \in DOMAIN s}

Rep(c, n) == [i \in 1..n |-> c]

Call(op, args, ret, exc) == [op |-> op, args |-> args, ret |-> ret, exc |-> exc]

NoCall == Call("init", <<>>, <<>>, "")

-----------------------------------------------------------------------------
(* Characters and strings                                                  *)

\* [A-Z], [a-z] and \d of validate_password's patterns
UpperChars ==
    {"A", "B", "C", "D", "E", "F", "G", "H", "I", "J", "K", "L", "M"} \cup
    {"N", "O", "P", "Q", "R", "S", "T", "U", "V", "W", "X", "Y", "Z"}
LowerChars ==
    {"a", "b", "c", "d", "e", "f", "g", "h", "i", "j", "k", "l", "m"} \cup
    {"n", "o", "p", "q", "r", "s", "t", "u", "v", "w", "x", "y", "z"}
DigitChars == {"0", "1", "2", "3", "4", "5", "6", "7", "8", "9"}
SpecialChars ==
    {"!", "@", "#", "$", "%", "^", "&", "*", "(", ")", "_", "+", "-", "=",
     "[", "]", "{", "}", "|", ";", ":", ",", ".", "<", ">", "?"}

\* str.isalnum(): non-empty and every character a letter or a digit
isalnum(s) ==
    /\ Len(s) >= 1
    /\ \A i \in DOMAIN s : s[i] \in UpperChars \cup LowerChars \cup DigitChars

U_alice == <<"a", "l", "i", "c", "e">>
U_bob == <<"b", "o", "b">>

PW_strong == <<"S", "t", "r", "0", "n", "g", "!", "P", "a", "s", "s">>
PW_wrong == <<"w", "r", "o", "n", "g">>
PW_other == <<"N", "0", "t", "!", "S", "a", "m", "e">>

-----------------------------------------------------------------------------
(* bcrypt, as db_utils uses it                                             *)

\* bcrypt reads at most this many bytes of a password
BCRYPT_MAX_BYTES == 72

\* Two passwords that agree on their first BCRYPT_MAX_BYTES bytes
PW_long_a == <<"A", "a", "1", "!">> \o Rep("x", BCRYPT_MAX_BYTES - 4) \o <<"a">>
PW_long_b == <<"A", "a", "1", "!">> \o Rep("x", BCRYPT_MAX_BYTES - 4) \o <<"b">>

Salts == {"salt1", "salt2"}

\* The input bcrypt hashes: releases before 5.0 silently cut the password
\* to its first 72 bytes.
BcryptInput(password) == SubSeq(password, 1, Min(Len(password), BCRYPT_MAX_BYTES))

\* Releases from 5.0 on raise ValueError for a longer password instead.
\* The repository pins no version, so the build decides (bcryptTruncates).
BcryptAccepts(password) == bcryptTruncates \/ Len(password) <= BCRYPT_MAX_BYTES

\* _hash_password with the salt gensalt() drew: an ideal salted hash of the
\* bytes bcrypt reads.
_hash_password(password, salt) == [salt |-> salt, digest |-> BcryptInput(password)]

\* bcrypt.checkpw(password, stored): re-hash under the stored salt and compare
checkpw(password, stored) == _hash_password(password, stored.salt) = stored

-----------------------------------------------------------------------------
(* validate_password                                                       *)

MIN_PASSWORD_LEN == 8
MAX_PASSWORD_LEN == 128

HasChar(s, class) == \E i \in DOMAIN s : s[i] \in class

\* str.lower(), character by character
LowerOf(c) ==
    CASE c = "A" -> "a"
        [] c = "B" -> "b"
        [] c = "C" -> "c"
        [] c = "D" -> "d"
        [] c = "E" -> "e"
        [] c = "F" -> "f"
        [] c = "G" -> "g"
        [] c = "H" -> "h"
        [] c = "I" -> "i"
        [] c = "J" -> "j"
        [] c = "K" -> "k"
        [] c = "L" -> "l"
        [] c = "M" -> "m"
        [] c = "N" -> "n"
        [] c = "O" -> "o"
        [] c = "P" -> "p"
        [] c = "Q" -> "q"
        [] c = "R" -> "r"
        [] c = "S" -> "s"
        [] c = "T" -> "t"
        [] c = "U" -> "u"
        [] c = "V" -> "v"
        [] c = "W" -> "w"
        [] c = "X" -> "x"
        [] c = "Y" -> "y"
        [] c = "Z" -> "z"
        [] OTHER -> c

lower(s) == [i \in DOMAIN s |-> LowerOf(s[i])]

common_passwords ==
    {<<"p", "a", "s", "s", "w", "o", "r", "d">>,
     <<"1", "2", "3", "4", "5", "6", "7", "8">>,
     <<"q", "w", "e", "r", "t", "y">>,
     <<"a", "b", "c", "1", "2", "3">>,
     <<"p", "a", "s", "s", "w", "o", "r", "d", "1">>,
     <<"a", "d", "m", "i", "n", "1", "2", "3">>,
     <<"w", "e", "l", "c", "o", "m", "e", "1">>,
     <<"l", "e", "t", "m", "e", "i", "n">>,
     <<"m", "o", "n", "k", "e", "y">>,
     <<"1", "2", "3", "4", "5", "6", "7", "8", "9", "0">>}

\* validate_password with the number check moved in front of the letter checks
ValidatePasswordNumberFirst(password) ==
    IF Len(password) < MIN_PASSWORD_LEN THEN <<FALSE, "at least 8 characters">>
    ELSE IF Len(password) > MAX_PASSWORD_LEN THEN <<FALSE, "less than 128 characters">>
    ELSE IF ~HasChar(password, DigitChars) THEN <<FALSE, "at least 1 number">>
    ELSE IF ~HasChar(password, UpperChars) THEN <<FALSE, "at least 1 uppercase letter">>
    ELSE IF ~HasChar(password, LowerChars) THEN <<FALSE, "at least 1 lowercase letter">>
    ELSE IF ~HasChar(password, SpecialChars) THEN <<FALSE, "at least 1 special character">>
    ELSE IF lower(password) \in common_passwords THEN <<FALSE, "too common">>
    ELSE <<TRUE, "Strong password!">>

\* validate_password's (is_valid, message)
validate_password(password) ==
    IF Len(password) < MIN_PASSWORD_LEN THEN <<FALSE, "at least 8 characters">>
    ELSE IF Len(password) > MAX_PASSWORD_LEN THEN <<FALSE, "less than 128 characters">>
    ELSE IF ~HasChar(password, UpperChars) THEN <<FALSE, "at least 1 uppercase letter">>
    ELSE IF ~HasChar(password, LowerChars) THEN <<FALSE, "at least 1 lowercase letter">>
    ELSE IF ~HasChar(password, DigitChars) THEN <<FALSE, "at least 1 number">>
    ELSE IF ~HasChar(password, SpecialChars) THEN <<FALSE, "at least 1 special character">>
    ELSE IF lower(password) \in common_passwords THEN <<FALSE, "too common">>
    ELSE <<TRUE, "Strong password!">>

-----------------------------------------------------------------------------
(* users: create_user, authenticate_user                                   *)

UserRows(username) == {i \in DOMAIN users : users[i].username = username}

UserRow(username, password, salt) ==
    [id |-> Len(users) + 1,
     username |-> username,
     password_hash |-> _hash_password(password, salt),
     created_at |-> now]

Registers(username, password) == registered' = registered \cup {<<username, password>>}

\* create_user returning ret or raising exc.  The argument tuple,
\* _hash_password included, is built before the INSERT runs; the UNIQUE
\* constraint on username raises IntegrityError, which is caught and turned
\* into False.
CreateUserOutcome(username, password, ret, exc) ==
    IF ~BcryptAccepts(password)
    THEN UNCHANGED <<users, registered>> /\ ret = None /\ exc = "ValueError"
    ELSE IF UserRows(username) # {}
    THEN UNCHANGED <<users, registered>> /\ ret = Some(FALSE) /\ exc = ""
    ELSE /\ \E salt \in Salts : users' = Append(users, UserRow(username, password, salt))
         /\ Registers(username, password)
         /\ ret = Some(TRUE) /\ exc = ""

Outcomes == {None, Some(TRUE), Some(FALSE)} \X {"", "ValueError"}

create_user(username, password) ==
    /\ \E o \in Outcomes :
          /\ CreateUserOutcome(username, password, o[1], o[2])
          /\ last' = Call("create_user", <<username, password>>, o[1], o[2])
    /\ UNCHANGED <<predictions, logged, feedback, activity, now, bcryptTruncates, page, schema, gradcam, classifier, training, conns>>

\* authenticate_user's return value: no row -> False; checkpw raising
\* (a password bcrypt refuses) -> False; otherwise checkpw's answer.
AuthResult(username, password) ==
    IF UserRows(username) = {} THEN FALSE
    ELSE LET stored == users[CHOOSE i \in UserRows(username) :
                                \A j \in UserRows(username) : i <= j].password_hash
         IN  IF ~BcryptAccepts(password) THEN FALSE
             ELSE checkpw(password, stored)

authenticate_user(username, password) ==
    /\ last' = Call("authenticate_user", <<username, password>>,
                    Some(AuthResult(username, password)), "")
    /\ UNCHANGED <<users, registered, predictions, logged, feedback, activity, now,
                   bcryptTruncates, page, schema, gradcam, classifier, training, conns>>

-----------------------------------------------------------------------------
(* show_register_form: one submission of the registration form            *)

MIN_USERNAME_LEN == 3
MAX_USERNAME_LEN == 30

\* What a submission did: the st.error / st.success it showed (<<>> when
\* create_user raised before any message), and whether create_user was called.
FormResult(message, called) == [message |-> message, create_user_called |-> called]

\* The validation chain in front of create_user: the message of the first
\* check that rejects the submission, or None when all pass.
RegisterRejection(new_username, new_password, confirm_password) ==
    IF new_username = <<>> \/ new_password = <<>> \/ confirm_password = <<>>
    THEN Some("Please fill in all fields")
    ELSE IF Len(new_username) < MIN_USERNAME_LEN
    THEN Some("Username must be at least 3 characters long")
    ELSE IF Len(new_username) > MAX_USERNAME_LEN
    THEN Some("Username must be less than 30 characters")
    ELSE IF ~isalnum(new_username) /\ "_" \notin Range(new_username)
    THEN Some("Username can only contain letters, numbers, and underscores")
    ELSE IF new_password # confirm_password
    THEN Some("Passwords don't match")
    ELSE IF ~validate_password(new_password)[1]
    THEN Some(validate_password(new_password)[2])
    ELSE None

RegisterFormSkipsPolicy(new_username, new_password, confirm_password) ==
    LET rejection == RegisterRejection(new_username, new_password, confirm_password)
        args == <<new_username, new_password, confirm_password>>
    IN  IF IsSome(rejection) /\ validate_password(new_password)[1]
        THEN /\ last' = Call("show_register_form", args, FormResult(rejection, FALSE), "")
             /\ UNCHANGED <<users, registered, predictions, logged, feedback, activity,
                            now, bcryptTruncates, page, schema, gradcam, classifier, training, conns>>
        ELSE /\ \E o \in Outcomes :
                  /\ CreateUserOutcome(new_username, new_password, o[1], o[2])
                  /\ last' = Call("show_register_form", args,
                                  FormResult(IF o[2] # "" THEN None
                                             ELSE IF Get(o[1])
                                             THEN Some("Account created successfully")
                                             ELSE Some("Username already exists"),
                                             TRUE),
                                  o[2])
             /\ UNCHANGED <<predictions, logged, feedback, activity, now, bcryptTruncates, page, schema, gradcam, classifier, training, conns>>

\* The `if submit:` block of show_register_form.
show_register_form(new_username, new_password, confirm_password) ==
    LET rejection == RegisterRejection(new_username, new_password, confirm_password)
        args == <<new_username, new_password, confirm_password>>
    IN  IF IsSome(rejection)
        THEN /\ last' = Call("show_register_form", args, FormResult(rejection, FALSE), "")
             /\ UNCHANGED <<users, registered, predictions, logged, feedback, activity,
                            now, bcryptTruncates, page, schema, gradcam, classifier, training, conns>>
        ELSE /\ \E o \in Outcomes :
                  /\ CreateUserOutcome(new_username, new_password, o[1], o[2])
                  /\ last' = Call("show_register_form", args,
                                  FormResult(IF o[2] # "" THEN None
                                             ELSE IF Get(o[1])
                                             THEN Some("Account created successfully")
                                             ELSE Some("Username already exists"),
                                             TRUE),
                                  o[2])
             /\ UNCHANGED <<predictions, logged, feedback, activity, now, bcryptTruncates, page, schema, gradcam, classifier, training, conns>>

-----------------------------------------------------------------------------
(* The columns of table predictions: init_db, _ensure_prediction_columns    *)

\* CREATE TABLE IF NOT EXISTS predictions (...)
BASE_COLUMNS == <<"id", "filename", "predicted_label", "confidence", "user", "created_at">>

\* wanted, in the order the dict is iterated
WANTED == <<"model_version", "report_path", "probabilities", "patient_id",
            "confidence_score", "processing_time_ms">>

Callers == {"A", "B"}

\* A caller of the routine: not in it (idle), between its PRAGMA table_info
\* and the end of its loop (adding), through it (done) or out of it by an
\* exception (failed); cols is the column set its PRAGMA returned and next
\* the index in wanted its loop is at.
IdleCaller == [pc |-> "idle", cols |-> {}, next |-> 1, exc |-> ""]

\* The table with the given columns: alters counts the ALTER TABLE
\* statements issued so far
Schema(columns) ==
    [columns |-> columns, alters |-> 0, callers |-> [c \in Callers |-> IdleCaller]]

FullSchema == Schema(BASE_COLUMNS \o WANTED)

\* The wanted columns that PRAGMA table_info does not list
Missing(columns) ==
    LET Lacking(col) == col \notin Range(columns) IN SelectSeq(WANTED, Lacking)

EnsureWithoutCheck(sch) ==
    [sch EXCEPT !.columns = @ \o WANTED, !.alters = @ + Len(WANTED)]

\* _ensure_prediction_columns run from its PRAGMA to the end of its loop
\* with no other caller in between: one ALTER TABLE ... ADD COLUMN per
\* missing column, each appending the column
_ensure_prediction_columns(sch) ==
    [sch EXCEPT !.columns = @ \o Missing(@),
                !.alters = @ + Len(Missing(sch.columns))]

EnsuredSchema == _ensure_prediction_columns(schema)

\* A caller enters the routine: PRAGMA table_info(predictions) and
\* cols = {row[1] for row in cur.fetchall()}
EnsureBegin(c) ==
    /\ schema.callers[c].pc = "idle"
    /\ schema' = [schema EXCEPT !.callers[c] =
                      [pc |-> "adding", cols |-> Range(schema.columns), next |-> 1,
                       exc |-> ""]]
    /\ last' = Call("PRAGMA table_info", <<c>>, None, "")
    /\ UNCHANGED <<users, registered, predictions, logged, feedback, activity, now,
                   bcryptTruncates, page, gradcam, classifier, training, conns>>

\* One iteration of the caller's loop over wanted: nothing for a column its
\* PRAGMA listed; otherwise ALTER TABLE predictions ADD COLUMN, a statement
\* of its own (sqlite3 opens no transaction for it), which SQLite refuses
\* with "duplicate column name" when the table has the column by now
EnsureStep(c) ==
    LET me == schema.callers[c]
        col == WANTED[me.next]
    IN  /\ me.pc = "adding"
        /\ IF me.next > Len(WANTED)
           THEN /\ schema' = [schema EXCEPT !.callers[c].pc = "done"]
                /\ last' = Call("_ensure_prediction_columns", <<c>>, None, "")
           ELSE IF col \in me.cols
           THEN /\ schema' = [schema EXCEPT !.callers[c].next = @ + 1]
                /\ last' = Call("col not in cols", <<c, col>>, Some(FALSE), "")
           ELSE IF col \in Range(schema.columns)
           THEN /\ schema' = [schema EXCEPT !.callers[c].pc = "failed",
                                            !.callers[c].exc = "OperationalError"]
                /\ last' = Call("ALTER TABLE", <<c, col>>, None, "OperationalError")
           ELSE /\ schema' = [schema EXCEPT !.columns = Append(@, col),
                                            !.alters = @ + 1,
                                            !.callers[c].next = @ + 1]
                /\ last' = Call("ALTER TABLE", <<c, col>>, None, "")
        /\ UNCHANGED <<users, registered, predictions, logged, feedback, activity, now,
                       bcryptTruncates, page, gradcam, classifier, training, conns>>

\* init_db on a database whose tables exist: the CREATE TABLE IF NOT EXISTS
\* statements change nothing, then the columns are ensured
init_db ==
    /\ schema' = EnsuredSchema
    /\ last' = Call("init_db", <<>>, None, "")
    /\ UNCHANGED <<users, registered, predictions, logged, feedback, activity, now,
                   bcryptTruncates, page, gradcam, classifier, training, conns>>

-----------------------------------------------------------------------------
(* predictions: log_prediction, update_prediction_report_path, reads       *)

\* json.dumps of a dict: its members, one <<key, value>> after the other
SeqOfSet(S) == CHOOSE s \in [1..Cardinality(S) -> S] : Range(s) = S

json_dumps(d) ==
    LET keys == SeqOfSet(DOMAIN d)
    IN  [i \in 1..Len(keys) |-> <<keys[i], d[keys[i]]>>]

\* json.loads of an object: a dict; of a repeated key the last member counts
json_loads(text) ==
    [k \in {text[i][1] : i \in DOMAIN text} |->
        text[CHOOSE i \in DOMAIN text :
                /\ text[i][1] = k
                /\ \A j \in DOMAIN text : text[j][1] = k => j <= i][2]]

\* The arguments of a log_prediction call; confidence is <<>> for a value
\* SQLite stores as NULL (None, NaN).
LogArgs(filename, predicted_label, confidence, user, model_version, probabilities, patient_id, processing_time_ms) ==
    [filename |-> filename, predicted_label |-> predicted_label,
     confidence |-> confidence, user |-> user, model_version |-> model_version,
     probabilities |-> probabilities, patient_id |-> patient_id,
     processing_time_ms |-> processing_time_ms]

\* The row log_prediction inserts: the four fixed columns, each optional
\* column only when its argument is not None (NULL otherwise), the mirror
\* confidence_score, the AUTOINCREMENT id and the DEFAULT created_at.
PredictionRow(a) ==
    [id |-> Len(predictions) + 1,
     filename |-> a.filename,
     predicted_label |-> a.predicted_label,
     confidence |-> a.confidence,
     user |-> a.user,
     created_at |-> now,
     model_version |-> a.model_version,
     report_path |-> None,
     probabilities |-> IF IsSome(a.probabilities)
                       THEN Some(json_dumps(Get(a.probabilities))) ELSE None,
     patient_id |-> a.patient_id,
     confidence_score |-> a.confidence,
     processing_time_ms |-> a.processing_time_ms]

\* log_prediction's effect on the table, returning the new id
LogPredictionEffect(a, id) ==
    /\ predictions' = Append(predictions, PredictionRow(a))
    /\ logged' = Append(logged, a)
    /\ id = Len(predictions) + 1

log_prediction(a) ==
    /\ \E id \in {Len(predictions) + 1} :
          /\ LogPredictionEffect(a, id)
          /\ last' = Call("log_prediction", a, Some(id), "")
    /\ schema' = EnsuredSchema
    /\ UNCHANGED <<users, registered, feedback, activity, now, bcryptTruncates, page, gradcam, classifier, training, conns>>

\* UPDATE predictions SET report_path = ? WHERE id = ?, on the table rows
SetReportPath(rows, prediction_id, report_path) ==
    [i \in DOMAIN rows |->
        IF rows[i].id = prediction_id
        THEN [rows[i] EXCEPT !.report_path = Some(report_path)]
        ELSE rows[i]]

UpdateEveryRow(prediction_id, report_path) ==
    [i \in DOMAIN predictions |-> [predictions[i] EXCEPT !.report_path = Some(report_path)]]

UpdatedPredictions(prediction_id, report_path) ==
    SetReportPath(predictions, prediction_id, report_path)

update_prediction_report_path(prediction_id, report_path) ==
    /\ predictions' = UpdatedPredictions(prediction_id, report_path)
    /\ last' = Call("update_prediction_report_path", <<prediction_id, report_path>>, None, "")
    /\ schema' = EnsuredSchema
    /\ UNCHANGED <<users, registered, logged, feedback, activity, now, bcryptTruncates, page,
                   gradcam, classifier, training, conns>>

\* ORDER BY key DESC: every order of the rows in which the key never
\* increases (SQL leaves the order of rows with equal keys open)
OrderByDesc(rows, keys) ==
    LET n == Len(rows)
        perms == {q \in [1..n -> 1..n] : \A i, j \in 1..n : q[i] = q[j] => i = j}
        sorted == {q \in perms : \A i, j \in 1..n : i < j => keys[q[i]] >= keys[q[j]]}
    IN  {[i \in 1..n |-> rows[q[i]]] : q \in sorted}

\* LIMIT ?
Limit(rows, limit) == SubSeq(rows, 1, Min(limit, Len(rows)))

\* The ORDER BY columns of a table's rows
Ids(rows) == [i \in DOMAIN rows |-> rows[i].id]
CreatedAts(rows) == [i \in DOMAIN rows |-> rows[i].created_at]

\* One tuple of fetch_predictions: the eight selected columns
FetchRow(r) ==
    [id |-> r.id, filename |-> r.filename, predicted_label |-> r.predicted_label,
     confidence |-> r.confidence, user |-> r.user, created_at |-> r.created_at,
     model_version |-> r.model_version, report_path |-> r.report_path]

\* fetch_predictions(limit): ORDER BY id DESC LIMIT ?
fetch_predictions(limit) ==
    {[i \in 1..Min(limit, Len(rows)) |-> FetchRow(rows[i])] :
        rows \in OrderByDesc(predictions, Ids(predictions))}

RecentRowDropsEmptyDict(r) ==
    [id |-> r.id, filename |-> r.filename, predicted_label |-> r.predicted_label,
     confidence |-> r.confidence, user |-> r.user, created_at |-> r.created_at,
     model_version |-> r.model_version,
     probabilities |-> IF IsSome(r.probabilities) /\ Get(r.probabilities) # <<>>
                       THEN Some(json_loads(Get(r.probabilities))) ELSE None,
     patient_id |-> r.patient_id, processing_time_ms |-> r.processing_time_ms]

\* One dict of get_recent_predictions_full: the probabilities text, when the
\* column holds one, parsed back to a dict (any JSON text is a non-empty str)
RecentRow(r) ==
    [id |-> r.id, filename |-> r.filename, predicted_label |-> r.predicted_label,
     confidence |-> r.confidence, user |-> r.user, created_at |-> r.created_at,
     model_version |-> r.model_version,
     probabilities |-> IF IsSome(r.probabilities)
                       THEN Some(json_loads(Get(r.probabilities))) ELSE None,
     patient_id |-> r.patient_id, processing_time_ms |-> r.processing_time_ms]

\* get_recent_predictions_full(limit): ORDER BY created_at DESC LIMIT ?
get_recent_predictions_full(limit) ==
    {[i \in 1..Min(limit, Len(rows)) |-> RecentRow(rows[i])] :
        rows \in OrderByDesc(predictions, CreatedAts(predictions))}

\* CURRENT_TIMESTAMP moves on by a second
MaxClock == 1

Tick ==
    /\ now < MaxClock
    /\ now' = now + 1
    /\ last' = Call("tick", <<>>, None, "")
    /\ UNCHANGED <<users, registered, predictions, logged, feedback, activity,
                   bcryptTruncates, page, schema, gradcam, classifier, training, conns>>

-----------------------------------------------------------------------------
(* prediction_feedback and user_activity                                   *)

FeedbackRow(prediction_id, user, feedback_type, actual_label, notes) ==
    [id |-> Len(feedback) + 1,
     prediction_id |-> prediction_id,
     user |-> user,
     feedback_type |-> feedback_type,
     actual_label |-> actual_label,
     notes |-> notes,
     created_at |-> now]

\* submit_prediction_feedback's effect on the table, returning the new id.
\* The declared foreign key is not enforced: any prediction_id is inserted.
SubmitFeedbackEffect(prediction_id, user, feedback_type, actual_label, notes, id) ==
    /\ feedback' = Append(feedback,
                          FeedbackRow(prediction_id, user, feedback_type, actual_label, notes))
    /\ id = Len(feedback) + 1

submit_prediction_feedback(prediction_id, user, feedback_type, actual_label, notes) ==
    /\ \E id \in {Len(feedback) + 1} :
          /\ SubmitFeedbackEffect(prediction_id, user, feedback_type, actual_label, notes, id)
          /\ last' = Call("submit_prediction_feedback",
                          <<prediction_id, user, feedback_type, actual_label, notes>>,
                          Some(id), "")
    /\ UNCHANGED <<users, registered, predictions, logged, activity, now, bcryptTruncates, page, schema, gradcam, classifier, training, conns>>

\* get_prediction_feedback(prediction_id): every value the call can return.
\* WHERE prediction_id = ? ORDER BY created_at DESC LIMIT 1; None for no row.
get_prediction_feedback(prediction_id) ==
    LET IsFor(f) == f.prediction_id = prediction_id
        rows == SelectSeq(feedback, IsFor)
    IN  IF rows = <<>> THEN {None}
        ELSE {Some(r[1]) : r \in OrderByDesc(rows, CreatedAts(rows))}

LogActivityEffect(username, activity_type) ==
    activity' = Append(activity, [id |-> Len(activity) + 1, username |-> username,
                                  activity_type |-> activity_type, timestamp |-> now])

log_user_activity(username, activity_type) ==
    /\ LogActivityEffect(username, activity_type)
    /\ last' = Call("log_user_activity", <<username, activity_type>>, None, "")
    /\ UNCHANGED <<users, registered, predictions, logged, feedback, now, bcryptTruncates, page, schema, gradcam, classifier, training, conns>>

-----------------------------------------------------------------------------
(* analytics                                                               *)

\* predictions p INNER JOIN prediction_feedback f ON p.id = f.prediction_id:
\* one joined row per feedback row whose prediction exists (ids are unique)
Joined ==
    LET HasPrediction(f) == \E i \in DOMAIN predictions : predictions[i].id = f.prediction_id
        PredictionOf(f) == predictions[CHOOSE i \in DOMAIN predictions :
                                          predictions[i].id = f.prediction_id]
        Pair(f) == [p |-> PredictionOf(f), f |-> f]
        matched == SelectSeq(feedback, HasPrediction)
    IN  [i \in DOMAIN matched |-> Pair(matched[i])]

FeedbackDates(rows) == [i \in DOMAIN rows |-> rows[i].f.created_at]

\* One dict of get_flagged_predictions
FlaggedRow(j) ==
    [id |-> j.p.id, filename |-> j.p.filename, predicted_label |-> j.p.predicted_label,
     confidence |-> j.p.confidence, user |-> j.p.user, created_at |-> j.p.created_at,
     feedback_type |-> j.f.feedback_type, actual_label |-> j.f.actual_label,
     notes |-> j.f.notes, feedback_date |-> j.f.created_at]

\* The joined rows get_flagged_predictions(limit) selects, in every order
\* the query can return them:
\* WHERE f.feedback_type IN ('incorrect', 'uncertain') ORDER BY f.created_at DESC LIMIT ?
FlaggedJoined(limit) ==
    LET IsFlagged(j) == j.f.feedback_type \in {"incorrect", "uncertain"}
        flagged == SelectSeq(Joined, IsFlagged)
    IN  {Limit(rows, limit) : rows \in OrderByDesc(flagged, FeedbackDates(flagged))}

FlaggedRows(rows) == [i \in DOMAIN rows |-> FlaggedRow(rows[i])]

get_flagged_predictions(limit) == {FlaggedRows(rows) : rows \in FlaggedJoined(limit)}

\* A Python float quotient, kept exact: num / den
Ratio(num, den) == [num |-> num, den |-> den]

AccuracyCountsUncertain ==
    LET IsCorrect(j) == j.f.feedback_type = "correct"
        IsIncorrect(j) == j.f.feedback_type = "incorrect"
        correct == Len(SelectSeq(Joined, IsCorrect))
        incorrect == Len(SelectSeq(Joined, IsIncorrect))
        total == Len(Joined)
    IN  [total_reviewed |-> total, correct_count |-> correct,
         incorrect_count |-> incorrect,
         accuracy |-> IF total > 0 THEN Ratio(correct * 100, total) ELSE Ratio(0, 1),
         sample_size |-> total]

\* get_model_accuracy_with_feedback
get_model_accuracy_with_feedback ==
    LET IsReviewed(j) == j.f.feedback_type \in {"correct", "incorrect"}
        IsCorrect(j) == j.f.feedback_type = "correct"
        IsIncorrect(j) == j.f.feedback_type = "incorrect"
        results == SelectSeq(Joined, IsReviewed)
        correct == Len(SelectSeq(results, IsCorrect))
        incorrect == Len(SelectSeq(results, IsIncorrect))
        total == Len(results)
    IN  IF results = <<>>
        THEN [total_reviewed |-> 0, correct_count |-> 0, incorrect_count |-> 0,
              accuracy |-> Ratio(0, 1), sample_size |-> 0]
        ELSE [total_reviewed |-> total, correct_count |-> correct,
              incorrect_count |-> incorrect,
              accuracy |-> IF total > 0 THEN Ratio(correct * 100, total) ELSE Ratio(0, 1),
              sample_size |-> total]

\* get_feedback_stats: a count per feedback_type that occurs, and 'total'
get_feedback_stats ==
    LET types == {feedback[i].feedback_type : i \in DOMAIN feedback}
    IN  [k \in types \cup {"total"} |->
            IF k = "total" THEN Len(feedback)
            ELSE LET IsK(f) == f.feedback_type = k IN Len(SelectSeq(feedback, IsK))]

\* The CASE of get_confidence_distribution, confidences in percent
EDGE_50 == 50
EDGE_70 == 70
EDGE_80 == 80
EDGE_90 == 90

BucketInclusiveEdges(confidence) ==
    IF confidence <= EDGE_50 THEN "0-50%"
    ELSE IF confidence <= EDGE_70 THEN "50-70%"
    ELSE IF confidence <= EDGE_80 THEN "70-80%"
    ELSE IF confidence <= EDGE_90 THEN "80-90%"
    ELSE "90-100%"

Bucket(confidence) ==
    IF confidence < EDGE_50 THEN "0-50%"
    ELSE IF confidence < EDGE_70 THEN "50-70%"
    ELSE IF confidence < EDGE_80 THEN "70-80%"
    ELSE IF confidence < EDGE_90 THEN "80-90%"
    ELSE "90-100%"

\* The range strings in the order ORDER BY range gives them
RangeOrder == <<"0-50%", "50-70%", "70-80%", "80-90%", "90-100%">>

\* get_confidence_distribution: WHERE confidence IS NOT NULL GROUP BY range
\* ORDER BY range; a range no row falls in has no entry.
get_confidence_distribution ==
    LET HasConfidence(r) == IsSome(r.confidence)
        rows == SelectSeq(predictions, HasConfidence)
        CountIn(range) == LET InRange(r) == Bucket(Get(r.confidence)) = range
                          IN  Len(SelectSeq(rows, InRange))
        NonEmpty(range) == CountIn(range) > 0
        present == SelectSeq(RangeOrder, NonEmpty)
    IN  [i \in DOMAIN present |-> [range |-> present[i], count |-> CountIn(present[i])]]

-----------------------------------------------------------------------------
(* analytics: totals, averages and summaries                               *)

RECURSIVE SumSeq(_)
SumSeq(s) == IF s = <<>> THEN 0 ELSE s[1] + SumSeq(Tail(s))

\* What a call hands back: a value, or the exception it raises
Returns(v) == [ret |-> Some(v), exc |-> ""]
Raises(e) == [ret |-> None, exc |-> e]

\* Python's a / b * 100 on ints
PercentOf(a, b) == IF b = 0 THEN Raises("ZeroDivisionError") ELSE Returns(Ratio(a * 100, b))

\* Python's 0.0
ZeroFloat == Ratio(0, 1)

\* The non-NULL values of a column (a sequence of nullable values)
NonNull(column) ==
    LET Has(v) == IsSome(v)
        present == SelectSeq(column, Has)
    IN  [i \in DOMAIN present |-> Get(present[i])]

\* SQL AVG, MIN, MAX: NULL when the column has no non-NULL value
AVG(column) ==
    IF NonNull(column) = <<>> THEN None
    ELSE Some(Ratio(SumSeq(NonNull(column)), Len(NonNull(column))))

MIN(column) ==
    IF NonNull(column) = <<>> THEN None
    ELSE Some(CHOOSE v \in Range(NonNull(column)) : \A w \in Range(NonNull(column)) : v <= w)

MAX(column) ==
    IF NonNull(column) = <<>> THEN None
    ELSE Some(CHOOSE v \in Range(NonNull(column)) : \A w \in Range(NonNull(column)) : v >= w)

ConfidenceColumn(rows) == [i \in DOMAIN rows |-> rows[i].confidence]

WithLabel(rows, label) == LET Is(r) == r.predicted_label = label IN SelectSeq(rows, Is)

ByUser(rows, username) == LET Is(r) == r.user = Some(username) IN SelectSeq(rows, Is)

\* SELECT predicted_label, COUNT(*) ... GROUP BY predicted_label, as a dict
CountByLabel(rows) ==
    [label \in {rows[i].predicted_label : i \in DOMAIN rows} |-> Len(WithLabel(rows, label))]

get_total_users == Len(users)

get_total_predictions == Len(predictions)

get_predictions_by_class == CountByLabel(predictions)

\* get_average_confidence: result if result is not None else 0.0
get_average_confidence ==
    LET result == AVG(ConfidenceColumn(predictions))
    IN  IF result # None THEN Get(result) ELSE ZeroFloat

\* get_confidence_by_class: {label: AVG(confidence)}, NULL averages kept
get_confidence_by_class ==
    [label \in {predictions[i].predicted_label : i \in DOMAIN predictions} |->
        AVG(ConfidenceColumn(WithLabel(predictions, label)))]

\* x if x else default, for a nullable average: None and 0.0 are falsy
OrDefault(x, default) ==
    IF IsSome(x) /\ Get(x).num # 0 THEN Get(x) ELSE default

\* x if x else 0.0, for a nullable MIN / MAX (a number of percent)
OrZeroFloat(x) == IF IsSome(x) /\ Get(x) # 0 THEN Ratio(Get(x), 1) ELSE ZeroFloat

get_model_performance_summary ==
    LET total == Len(predictions)
        avg_conf == AVG(ConfidenceColumn(predictions))
        min_conf == MIN(ConfidenceColumn(predictions))
        max_conf == MAX(ConfidenceColumn(predictions))
        avg_time == AVG([i \in DOMAIN predictions |-> predictions[i].processing_time_ms])
    IN  [total_predictions |-> IF total # 0 THEN total ELSE 0,
         average_confidence |-> OrDefault(avg_conf, ZeroFloat),
         min_confidence |-> OrZeroFloat(min_conf),
         max_confidence |-> OrZeroFloat(max_conf),
         class_distribution |-> CountByLabel(predictions),
         average_processing_time_ms |-> OrDefault(avg_time, 0)]

get_user_total_predictions(username) == Len(ByUser(predictions, username))

get_user_predictions_by_class(username) == CountByLabel(ByUser(predictions, username))

get_user_average_confidence(username) ==
    LET result == AVG(ConfidenceColumn(ByUser(predictions, username)))
    IN  IF result # None THEN Get(result) ELSE ZeroFloat

\* get_user_activity_stats: counts per activity type, first and last
\* activity (NULL without a row), the registration date (None without a user)
get_user_activity_stats(username) ==
    LET Mine(a) == a.username = username
        mine == SelectSeq(activity, Mine)
        OfType(t) == LET Is(a) == a.activity_type = t IN Len(SelectSeq(mine, Is))
        activity_counts == [t \in {mine[i].activity_type : i \in DOMAIN mine} |-> OfType(t)]
        stamps == [i \in DOMAIN mine |-> Some(mine[i].timestamp)]
        DictGet(t) == IF t \in DOMAIN activity_counts THEN activity_counts[t] ELSE 0
    IN  [activity_counts |-> activity_counts,
         first_activity |-> MIN(stamps),
         last_activity |-> MAX(stamps),
         registered_at |-> IF UserRows(username) = {} THEN None
                           ELSE Some(users[CHOOSE i \in UserRows(username) : TRUE].created_at),
         total_logins |-> DictGet("login"),
         total_predictions |-> DictGet("prediction"),
         total_pdf_downloads |-> DictGet("pdf_download")]

UserFeedbackStatsUnguarded(username) ==
    LET Mine(f) == f.user = username
        mine == SelectSeq(feedback, Mine)
        total == Len(mine)
        OfType(t) == LET Is(f) == f.feedback_type = t IN Len(SelectSeq(mine, Is))
        agreement_rate == PercentOf(OfType("correct"), total)
    IN  IF agreement_rate.exc # "" THEN agreement_rate
        ELSE Returns([total_feedback |-> total, correct |-> OfType("correct"),
                      incorrect |-> OfType("incorrect"), uncertain |-> OfType("uncertain"),
                      agreement_rate |-> Get(agreement_rate.ret)])

\* get_user_feedback_stats: the agreement rate divides only when total > 0
get_user_feedback_stats(username) ==
    LET Mine(f) == f.user = username
        mine == SelectSeq(feedback, Mine)
        total == Len(mine)
        OfType(t) == LET Is(f) == f.feedback_type = t IN Len(SelectSeq(mine, Is))
        correct == OfType("correct")
        agreement_rate == IF total > 0 THEN PercentOf(correct, total) ELSE Returns(ZeroFloat)
    IN  IF agreement_rate.exc # "" THEN agreement_rate
        ELSE Returns([total_feedback |-> total, correct |-> OfType("correct"),
                      incorrect |-> OfType("incorrect"), uncertain |-> OfType("uncertain"),
                      agreement_rate |-> Get(agreement_rate.ret)])

\* The analytics functions modelled, by name
AnalyticsNames ==
    {"get_total_users", "get_total_predictions", "get_predictions_by_class",
     "get_average_confidence", "get_confidence_by_class", "get_model_performance_summary",
     "get_user_total_predictions", "get_user_predictions_by_class",
     "get_user_average_confidence", "get_user_activity_stats", "get_user_feedback_stats",
     "get_recent_predictions_full", "get_confidence_distribution", "get_feedback_stats",
     "get_model_accuracy_with_feedback", "get_flagged_predictions"}

\* Every outcome a call of the named function can have
AnalyticsOutcomes(name, username, limit) ==
    CASE name = "get_total_users" -> {Returns(get_total_users)}
      [] name = "get_total_predictions" -> {Returns(get_total_predictions)}
      [] name = "get_predictions_by_class" -> {Returns(get_predictions_by_class)}
      [] name = "get_average_confidence" -> {Returns(get_average_confidence)}
      [] name = "get_confidence_by_class" -> {Returns(get_confidence_by_class)}
      [] name = "get_model_performance_summary" -> {Returns(get_model_performance_summary)}
      [] name = "get_user_total_predictions" -> {Returns(get_user_total_predictions(username))}
      [] name = "get_user_predictions_by_class" ->
            {Returns(get_user_predictions_by_class(username))}
      [] name = "get_user_average_confidence" ->
            {Returns(get_user_average_confidence(username))}
      [] name = "get_user_activity_stats" -> {Returns(get_user_activity_stats(username))}
      [] name = "get_user_feedback_stats" -> {get_user_feedback_stats(username)}
      [] name = "get_recent_predictions_full" ->
            {Returns(res) : res \in get_recent_predictions_full(limit)}
      [] name = "get_confidence_distribution" -> {Returns(get_confidence_distribution)}
      [] name = "get_feedback_stats" -> {Returns(get_feedback_stats)}
      [] name = "get_model_accuracy_with_feedback" ->
            {Returns(get_model_accuracy_with_feedback)}
      [] name = "get_flagged_predictions" ->
            {Returns(res) : res \in get_flagged_predictions(limit)}

\* One call of an analytics function: a read, the store is untouched
analytics_call(name, username, limit) ==
    /\ \E o \in AnalyticsOutcomes(name, username, limit) :
          last' = Call(name, <<username, limit>>, o.ret, o.exc)
    /\ UNCHANGED <<users, registered, predictions, logged, feedback, activity, now,
                   bcryptTruncates, page, schema, gradcam, classifier, training, conns>>

-----------------------------------------------------------------------------
(* pages/Prediction.py: the class labels and the cached model              *)

DEFAULT_CLASS_LABELS == <<"Normal", "Benign", "Malignant">>

\* models/class_names.json: absent, unreadable as JSON, or a JSON array
NoFile == [exists |-> FALSE, parses |-> FALSE, names |-> <<>>]
BadFile == [exists |-> TRUE, parses |-> FALSE, names |-> <<>>]
ClassFile(names) == [exists |-> TRUE, parses |-> TRUE, names |-> names]

\* CLASS_LABELS as each script run computes it
CLASS_LABELS ==
    IF classifier.class_names.exists /\ classifier.class_names.parses
    THEN classifier.class_names.names
    ELSE DEFAULT_CLASS_LABELS

\* load_model under st.cache_resource: the cached model when there is one;
\* otherwise a model whose fc layer has len(CLASS_LABELS) outputs, into which
\* the weight file is loaded when it exists (load_state_dict raises on a
\* head of another width). The result is the width of the model's output.
load_model ==
    IF IsSome(classifier.fc) THEN Returns(Get(classifier.fc))
    ELSE IF IsSome(classifier.weights) /\ Get(classifier.weights) # Len(CLASS_LABELS)
    THEN Raises("RuntimeError")
    ELSE Returns(Len(CLASS_LABELS))

\* train.py main: the best epoch saves the weights and the class names
train(class_names) ==
    /\ classifier' = [classifier EXCEPT !.class_names = ClassFile(class_names),
                                        !.weights = Some(Len(class_names))]
    /\ last' = Call("train", class_names, None, "")
    /\ UNCHANGED <<users, registered, predictions, logged, feedback, activity, now,
                   bcryptTruncates, page, schema, gradcam, training, conns>>

\* train.py main, epoch by epoch. val_acc = correct / len(val set) is kept
\* as the number of correct validation images, the set having a fixed size.
VAL_IMAGES == 0 .. 2

\* settings.epochs
MaxEpochs == 3

\* Before main() runs: no loop, nothing saved by it. checkpoint is the epoch
\* whose state_dict MODEL_PATH holds, names_epoch the epoch that wrote
\* class_names.json, accs the val_acc of every completed epoch.
TrainingInit ==
    [pc |-> "idle", class_names |-> <<>>, epoch |-> 0, best_acc |-> 0,
     accs |-> <<>>, checkpoint |-> None, names_epoch |-> None]

\* main() up to the loop: get_loaders(), build_model, best_acc = 0.0
train_main(class_names) ==
    /\ training.pc = "idle"
    /\ training' = [TrainingInit EXCEPT !.pc = "loop", !.class_names = class_names]
    /\ last' = Call("train.main", class_names, None, "")
    /\ UNCHANGED <<users, registered, predictions, logged, feedback, activity, now,
                   bcryptTruncates, page, schema, gradcam, classifier, conns>>

\* if val_acc > best_acc
Improves(val_acc, best_acc) == val_acc > best_acc

\* One pass of the loop body: train_one_epoch, evaluate, and the save of the
\* weights and of the class names when the accuracy improved
train_epoch(val_acc) ==
    /\ training.pc = "loop"
    /\ \E epoch \in {training.epoch + 1} :
          /\ training' =
                [training EXCEPT
                    !.epoch = epoch,
                    !.accs = Append(@, val_acc),
                    !.pc = IF epoch = MaxEpochs THEN "done" ELSE "loop",
                    !.best_acc = IF Improves(val_acc, @) THEN val_acc ELSE @,
                    !.checkpoint = IF Improves(val_acc, training.best_acc)
                                   THEN Some(epoch) ELSE @,
                    !.names_epoch = IF Improves(val_acc, training.best_acc)
                                    THEN Some(epoch) ELSE @]
          /\ classifier' =
                IF Improves(val_acc, training.best_acc)
                THEN [classifier EXCEPT
                         !.class_names = ClassFile(training.class_names),
                         !.weights = Some(Len(training.class_names))]
                ELSE classifier
          /\ last' = Call("train.epoch", <<epoch, val_acc>>, None, "")
    /\ UNCHANGED <<users, registered, predictions, logged, feedback, activity, now,
                   bcryptTruncates, page, schema, gradcam, conns>>

-----------------------------------------------------------------------------
(* src/utils/db_utils.py: get_conn, the scope of one connection            *)

NoConns == <<>>

\* conn = sqlite3.connect(db_path); yield conn: the body of the with runs
get_conn_enter ==
    /\ conns' = Append(conns, [scope |-> "body", open |-> TRUE, committed |-> FALSE,
                               exc |-> ""])
    /\ last' = Call("get_conn.enter", <<>>, Some(Len(conns) + 1), "")
    /\ UNCHANGED <<users, registered, predictions, logged, feedback, activity, now,
                   bcryptTruncates, page, schema, gradcam, classifier, training>>

\* What the body of a with block does, and what conn.commit() does
BodyOutcomes == {"completes", "raises"}
CommitOutcomes == {"ok", "fails"}

\* finally: conn.commit(); conn.close(). A commit that raises leaves the
\* finally block at once; the exception of the body, if any, is replaced.
ScopeExit(c, body, commit) ==
    IF commit = "fails"
    THEN [c EXCEPT !.scope = "exited", !.exc = "OperationalError"]
    ELSE [c EXCEPT !.scope = "exited", !.committed = TRUE, !.open = FALSE,
                   !.exc = IF body = "raises" THEN "Exception" ELSE ""]

\* The with block of connection i is left
get_conn_exit(i, body, commit) ==
    /\ conns[i].scope = "body"
    /\ conns' = [conns EXCEPT ![i] = ScopeExit(@, body, commit)]
    /\ last' = Call("get_conn.exit", <<i, body, commit>>, None, conns'[i].exc)
    /\ UNCHANGED <<users, registered, predictions, logged, feedback, activity, now,
                   bcryptTruncates, page, schema, gradcam, classifier, training>>

-----------------------------------------------------------------------------
(* src/utils/grad_cam.py: GradCAM on the target layer of a shared model    *)

\* np.argmax / torch.argmax: the first index of the largest entry (indices
\* from 1 here)
argmax(probs) ==
    CHOOSE i \in DOMAIN probs :
        \A j \in DOMAIN probs : probs[j] <= probs[i] /\ (j < i => probs[j] < probs[i])

\* The output of the target layer has LayerShape[1] rows and LayerShape[2]
\* columns (7 x 7 for layer4 on a 224 x 224 input) in each of its channels
LayerShape == <<2, 2>>
Rows == 1..LayerShape[1]
Cols == 1..LayerShape[2]
ChannelIds == 1..2
ClassIds == 0..1

\* 1 / 1e-8
EPS_INV == 100000000

\* Values of the layer's output (it ends in a ReLU)
ActValues == {0, 1}

\* One channel of the layer's output: all zero, all one, one position, a
\* diagonal
ChannelMaps ==
    {m \in [Rows -> [Cols -> ActValues]] :
        \/ \A h \in Rows, w \in Cols : m[h][w] = m[1][1]
        \/ \A h \in Rows, w \in Cols : m[h][w] = 1 <=> (h = 1 /\ w = 1)
        \/ \A h \in Rows, w \in Cols : m[h][w] = 1 <=> h = w}

\* What the layer puts out for an input x: a tensor [channel][row][column].
\* An input is given by this tensor.
Images == [ChannelIds -> ChannelMaps]

\* Sum of one channel's map over its positions
SumCells(m) == SumSeq([h \in Rows |-> SumSeq(m[h])])

\* The model after the target layer: average pooling, then the linear head.
\* head[k + 1][c] is the derivative of the score of class k by any one
\* position of channel c, that is fc.weight[k][c] / (rows * columns).
Logits(head, x) ==
    [k \in DOMAIN head |-> SumSeq([c \in ChannelIds |-> head[k][c] * SumCells(x[c])])]

\* The gradient of the score of class_idx at the layer's output
Gradient(head, class_idx) ==
    [c \in ChannelIds |-> [h \in Rows |-> [w \in Cols |-> head[class_idx + 1][c]]]]

\* torch.sum(weights * activations, dim=1) with weights the mean of the
\* gradients over the positions: the entries' numerators over rows * columns
WeightedSum(gradients, activations) ==
    [h \in Rows |-> [w \in Cols |->
        SumSeq([c \in ChannelIds |-> SumCells(gradients[c]) * activations[c][h][w]])]]

relu(m) == [h \in Rows |-> [w \in Cols |-> IF m[h][w] > 0 THEN m[h][w] ELSE 0]]

amin(m) == CHOOSE v \in {m[h][w] : h \in Rows, w \in Cols} :
              \A h \in Rows, w \in Cols : v <= m[h][w]

amax(m) == CHOOSE v \in {m[h][w] : h \in Rows, w \in Cols} :
              \A h \in Rows, w \in Cols : v >= m[h][w]

\* The division without the epsilon
NormalizeWithoutEpsilon(m) ==
    [h \in Rows |-> [w \in Cols |-> Ratio(m[h][w] - amin(m), amax(m) - amin(m))]]

\* (cam - cam_min) / (cam_max - cam_min + 1e-8) for the numerators m over
\* rows * columns
Normalize(m) ==
    [h \in Rows |-> [w \in Cols |->
        Ratio((m[h][w] - amin(m)) * EPS_INV,
              (amax(m) - amin(m)) * EPS_INV + LayerShape[1] * LayerShape[2])]]

\* The map __call__ computes from the two captured tensors: the weighted
\* sum, then relu, then the normalisation, each applied to the value of the
\* step before
Cam(gradients, activations) ==
    CHOOSE cam \in {Normalize(m) : m \in {relu(sum) : sum \in
                        {WeightedSum(gradients, activations)}}} : TRUE

\* Threads that call Grad-CAM on the shared model
Sessions == {"A", "B"}

\* A thread outside __call__
IdleCall ==
    [pc |-> "idle", id |-> 0, inst |-> 0, x |-> None, class_idx |-> None, hooks |-> 0,
     overlapped |-> FALSE, exc |-> "", ret |-> None, activations_of |-> 0, gradients_of |-> 0]

\* The model (its head), the GradCAM instances whose hooks are on its target
\* layer in order of registration, each with its two fields, the threads,
\* and the number of calls started. A captured tensor carries the number of
\* the call whose pass produced it.
GradCam(head, instances) ==
    [head |-> head, instances |-> instances, sessions |-> [s \in Sessions |-> IdleCall],
     ncalls |-> 0]

\* GradCAM.__init__: fields None, hooks registered on the layer
NewInstance == [activations |-> None, gradients |-> None]

Captured(id, value) == Some([call |-> id, value |-> value])

\* Forward hooks that keep what an instance already holds
ForwardHooksKeepFirst(g, id, output) ==
    [i \in DOMAIN g.instances |->
        IF IsSome(g.instances[i].activations) THEN g.instances[i]
        ELSE [g.instances[i] EXCEPT !.activations = Captured(id, output)]]

\* fwd_hook of every instance registered on the layer runs on a forward pass
ForwardHooks(g, id, output) ==
    [i \in DOMAIN g.instances |->
        [g.instances[i] EXCEPT !.activations = Captured(id, output)]]

\* Backward hooks that keep what an instance already holds
BackwardHooksKeepFirst(g, id, hooks, grad_out) ==
    [i \in DOMAIN g.instances |->
        IF i <= hooks /\ ~IsSome(g.instances[i].gradients)
        THEN [g.instances[i] EXCEPT !.gradients = Captured(id, grad_out)]
        ELSE g.instances[i]]

\* bwd_hook of the instances that were registered when the pass went forward
BackwardHooks(g, id, hooks, grad_out) ==
    [i \in DOMAIN g.instances |->
        IF i <= hooks THEN [g.instances[i] EXCEPT !.gradients = Captured(id, grad_out)]
        ELSE g.instances[i]]

\* Another thread's step falls between the steps of the calls in progress
Overlap(g, s) ==
    [t \in Sessions |->
        IF t # s /\ g.sessions[t].pc # "idle"
        THEN [g.sessions[t] EXCEPT !.overlapped = TRUE] ELSE g.sessions[t]]

\* __call__ up to the forward pass: zero_grad, logits = self.model(x), and
\* the class index (the top class when none is given)
AfterForward(g, s, inst, x, class_idx) ==
    LET id == g.ncalls + 1
        logits == Logits(g.head, x)
    IN  [g EXCEPT !.ncalls = id,
                  !.instances = ForwardHooks(g, id, x),
                  !.sessions = [Overlap(g, s) EXCEPT ![s] =
                      [IdleCall EXCEPT !.pc = "forward", !.id = id, !.inst = inst,
                                       !.x = Some(x),
                                       !.hooks = Len(g.instances),
                                       !.class_idx = IF IsSome(class_idx) THEN class_idx
                                                     ELSE Some(argmax(logits) - 1)]]]

\* score = logits[:, class_idx]; score.backward(retain_graph=True)
AfterBackward(g, s) ==
    LET call == g.sessions[s]
        class_idx == Get(call.class_idx)
    IN  IF class_idx + 1 \notin DOMAIN g.head
        THEN [g EXCEPT !.sessions = [Overlap(g, s) EXCEPT ![s] =
                          [call EXCEPT !.pc = "idle", !.exc = "IndexError"]]]
        ELSE [g EXCEPT !.instances = BackwardHooks(g, call.id, call.hooks,
                                                   Gradient(g.head, class_idx)),
                       !.sessions = [Overlap(g, s) EXCEPT ![s] =
                          [call EXCEPT !.pc = "backward"]]]

\* The rest of __call__: the map from self.gradients and self.activations
AfterCompute(g, s) ==
    LET call == g.sessions[s]
        self == g.instances[call.inst]
    IN  [g EXCEPT !.sessions = [Overlap(g, s) EXCEPT ![s] =
            [call EXCEPT !.pc = "idle",
                         !.ret = Some(Cam(Get(self.gradients).value,
                                          Get(self.activations).value)),
                         !.activations_of = Get(self.activations).call,
                         !.gradients_of = Get(self.gradients).call]]]

\* cam = GradCAM(model, target_layer_name="layer4")
GradCAM_init ==
    /\ gradcam' = [gradcam EXCEPT !.instances = Append(@, NewInstance)]
    /\ last' = Call("GradCAM.__init__", <<>>, Some(Len(gradcam.instances) + 1), "")
    /\ UNCHANGED <<users, registered, predictions, logged, feedback, activity, now,
                   bcryptTruncates, page, schema, classifier, training, conns>>

\* One call of instance inst with no other thread in between
GradCAM_call(s, inst, x, class_idx) ==
    /\ \A t \in Sessions : gradcam.sessions[t].pc = "idle"
    /\ \E forward \in {AfterForward(gradcam, s, inst, x, class_idx)} :
       \E backward \in {AfterBackward(forward, s)} :
       \E done \in {IF backward.sessions[s].pc = "idle" THEN backward
                    ELSE AfterCompute(backward, s)} :
          /\ gradcam' = done
          /\ last' = Call("GradCAM.__call__", <<s, inst, x, class_idx>>,
                          done.sessions[s].ret, done.sessions[s].exc)
    /\ UNCHANGED <<users, registered, predictions, logged, feedback, activity, now,
                   bcryptTruncates, page, schema, classifier, training, conns>>

\* The steps of a call that other threads' steps may fall between
CallForward(s, inst, x, class_idx) ==
    /\ gradcam.sessions[s].pc = "idle"
    /\ gradcam' = AfterForward(gradcam, s, inst, x, class_idx)
    /\ last' = Call("forward", <<s, inst, x, class_idx>>, None, "")
    /\ UNCHANGED <<users, registered, predictions, logged, feedback, activity, now,
                   bcryptTruncates, page, schema, classifier, training, conns>>

CallBackward(s) ==
    /\ gradcam.sessions[s].pc = "forward"
    /\ gradcam' = AfterBackward(gradcam, s)
    /\ last' = Call("backward", <<s>>, None, gradcam'.sessions[s].exc)
    /\ UNCHANGED <<users, registered, predictions, logged, feedback, activity, now,
                   bcryptTruncates, page, schema, classifier, training, conns>>

CallCompute(s) ==
    /\ gradcam.sessions[s].pc = "backward"
    /\ gradcam' = AfterCompute(gradcam, s)
    /\ last' = Call("GradCAM.__call__", <<s>>, gradcam'.sessions[s].ret, "")
    /\ UNCHANGED <<users, registered, predictions, logged, feedback, activity, now,
                   bcryptTruncates, page, schema, classifier, training, conns>>

\* The head load_model gives a model of width classes
HeadOf(width) == SubSeq(<<<<1, 0>>, <<0, 1>>, <<1, 1>>>>, 1, width)

\* The head of the model the page sessions share when the class list is the
\* default one
PageHead == HeadOf(Len(DEFAULT_CLASS_LABELS))

\* What the layer puts out for the image every session of this page uploads
PageImage == [c \in ChannelIds |-> [h \in Rows |-> [w \in Cols |->
                 IF c = 1 /\ h = w THEN 1 ELSE 0]]]

\* logits = model(img_tensor) of the inference block on the model load_model
\* returned: the forward hooks of the instances constructed by earlier runs
\* fire (0: no Grad-CAM call)
PageInference(g, width, x) ==
    [g EXCEPT !.head = HeadOf(width), !.instances = ForwardHooks(g, 0, x)]

\* The Grad-CAM block: cam = GradCAM(model, "layer4"); cam(img_tensor, pred_idx)
PageGradCam(g, x, pred_idx) ==
    CHOOSE done \in
        {AfterCompute(backward, "A") : backward \in
            {AfterBackward(forward, "A") : forward \in
                {AfterForward(constructed, "A", Len(constructed.instances), x, Some(pred_idx)) :
                    constructed \in {[g EXCEPT !.instances = Append(@, NewInstance)]}}}} : TRUE

-----------------------------------------------------------------------------
(* Initial states                                                          *)

\* The page of a logged-in session before its first script run: no file in
\* the uploader, no button rendered, nothing shown, no st.rerun() pending,
\* no run counted.
PageInit ==
    [authenticated |-> TRUE, username |-> Some(U_alice), uploaded |-> FALSE,
     widgets |-> {}, shown |-> {}, rerun |-> FALSE, runs |-> 0]

\* A session nobody has logged in to
LoggedOut == [PageInit EXCEPT !.authenticated = FALSE, !.username = None]

\* No class-name file and no weight file on disk, load_model not yet called
ClassifierInit == [class_names |-> NoFile, weights |-> None, fc |-> None]

\* Before load_model was called: no model, no GradCAM
GradCamInit == GradCam(<<>>, <<>>)

EmptySession ==
    /\ training = TrainingInit /\ conns = NoConns
    /\ gradcam = GradCamInit
    /\ classifier = ClassifierInit
    /\ users = <<>>
    /\ feedback = <<>>
    /\ activity = <<>>
    /\ now = 0
    /\ last = NoCall
    /\ registered = {}

EmptyStore ==
    /\ page = PageInit /\ training = TrainingInit /\ conns = NoConns
    /\ schema = FullSchema
    /\ gradcam = GradCamInit
    /\ classifier = ClassifierInit
    /\ users = <<>>
    /\ predictions = <<>>
    /\ feedback = <<>>
    /\ activity = <<>>
    /\ now = 0
    /\ last = NoCall
    /\ registered = {}
    /\ logged = <<>>

\* After init_db() and ensure_user_table(): the tables exist and are empty.
Init == EmptyStore /\ bcryptTruncates = TRUE

InitAuth == EmptyStore /\ bcryptTruncates \in BOOLEAN

-----------------------------------------------------------------------------
(* SpecAuth: any sequence of create_user and authenticate_user calls       *)

AuthUsernames == {U_alice, U_bob}
AuthPasswords == {PW_strong, PW_wrong, PW_long_a, PW_long_b}

NextAuth ==
    \/ \E u \in AuthUsernames, p \in AuthPasswords : create_user(u, p)
    \/ \E u \in AuthUsernames, p \in AuthPasswords : authenticate_user(u, p)

SpecAuth == InitAuth /\ [][NextAuth]_vars

-----------------------------------------------------------------------------
(* SpecRegister: any sequence of registration-form submissions             *)

U_ab == <<"a", "b">>
U_long == Rep("a", MAX_USERNAME_LEN + 1)
U_bad == <<"a", " ", "b", "!">>
U_mixed == <<"a", "_", "!">>

PW_noupper == <<"s", "t", "r", "0", "n", "g", "!", "p", "a", "s", "s">>
PW_nolower == <<"S", "T", "R", "0", "N", "G", "!", "P", "A", "S", "S">>
PW_nodigit == <<"S", "t", "r", "o", "n", "g", "!", "P", "a", "s", "s">>
PW_nospecial == <<"S", "t", "r", "0", "n", "g", "P", "a", "s", "s">>
PW_toolong == <<"A", "a", "1", "!">> \o Rep("x", MAX_PASSWORD_LEN - 3)

FormUsernames == {<<>>, U_ab, U_long, U_bad, U_mixed, U_alice}
FormPasswords ==
    {<<>>, PW_wrong, PW_noupper, PW_nolower, PW_nodigit, PW_nospecial, PW_toolong,
     PW_strong, PW_long_a}
FormConfirms(p) == {<<>>, p, PW_other}

NextRegister ==
    \E u \in FormUsernames, p \in FormPasswords :
        \E c \in FormConfirms(p) : show_register_form(u, p, c)

SpecRegister == InitAuth /\ [][NextRegister]_vars

-----------------------------------------------------------------------------
(* SpecRoundTrip: log_prediction calls, report-path updates and the clock  *)

MaxRoundTripRows == 2

ProbsAll == [Normal |-> 10, Benign |-> 30, Malignant |-> 60]
ProbsTwo == [Benign |-> 95, Malignant |-> 5]
ProbsEmpty == <<>>

F_img == <<"a", ".", "p", "n", "g">>

RoundTripArgs ==
    {LogArgs(F_img, "Malignant", Some(60), Some(U_alice), Some("v1"), Some(ProbsAll),
             Some("P1"), Some(12)),
     LogArgs(F_img, "Benign", Some(95), None, None, Some(ProbsTwo), None, None),
     LogArgs(F_img, "Benign", Some(30), Some(U_alice), None, Some(ProbsEmpty), None, None),
     LogArgs(F_img, "Normal", Some(95), None, None, None, None, None)}

ReportPaths == {"reports/a.pdf"}

NextRoundTrip ==
    \/ \E a \in RoundTripArgs : Len(predictions) < MaxRoundTripRows /\ log_prediction(a)
    \/ \E id \in 1..(MaxRoundTripRows + 1), path \in ReportPaths :
          update_prediction_report_path(id, path)
    \/ Tick

SpecRoundTrip == Init /\ [][NextRoundTrip]_vars

-----------------------------------------------------------------------------
(* SpecFeedback: log_prediction and submit_prediction_feedback calls       *)

MaxFbPredictions == 1
MaxFeedback == 3

FbLogArgs == {LogArgs(F_img, "Malignant", Some(60), Some(U_alice), None, None, None, None)}

\* <<feedback_type, actual_label, notes>>
FeedbackInputs ==
    {<<"correct", None, None>>,
     <<"incorrect", Some("Benign"), Some("n")>>,
     <<"uncertain", None, None>>}

NextFeedback ==
    \/ \E a \in FbLogArgs : Len(predictions) < MaxFbPredictions /\ log_prediction(a)
    \/ \E id \in 1..(MaxFbPredictions + 1), in \in FeedbackInputs :
          /\ Len(feedback) < MaxFeedback
          /\ submit_prediction_feedback(id, U_alice, in[1], in[2], in[3])
    \/ Tick

SpecFeedback == Init /\ [][NextFeedback]_vars

-----------------------------------------------------------------------------
(* Spec: the operations of db_utils on one database, in any order          *)

MaxPredictions == 2
MaxFeedbackRows == 1
MaxActivity == 1

StoreLogArgs ==
    {LogArgs(F_img, "Malignant", Some(60), Some(U_alice), Some("v1"), Some(ProbsTwo),
             None, Some(12)),
     LogArgs(F_img, "Benign", Some(95), None, None, None, None, None)}

StoreReportPaths == {"reports/a.pdf", "reports/b.pdf"}

Next ==
    \/ Len(users) < 1 /\ create_user(U_alice, PW_strong)
    \/ \E p \in {PW_strong, PW_wrong} : authenticate_user(U_alice, p)
    \/ \E a \in StoreLogArgs : Len(predictions) < MaxPredictions /\ log_prediction(a)
    \/ \E id \in 1..(MaxPredictions + 1), path \in StoreReportPaths :
          update_prediction_report_path(id, path)
    \/ \E id \in 1..(MaxPredictions + 1) :
          /\ Len(feedback) < MaxFeedbackRows
          /\ submit_prediction_feedback(id, U_alice, "incorrect", Some("Benign"), None)
    \/ Len(activity) < MaxActivity /\ log_user_activity(U_alice, "prediction")

Spec == Init /\ [][Next]_vars

-----------------------------------------------------------------------------
(* SpecConf: predictions logged with any of a few confidences              *)

MaxConfRows == 5

\* None stands for a confidence SQLite stores as NULL (float('nan'))
ConfInputs == {None, Some(30), Some(50), Some(55), Some(70), Some(75), Some(80),
               Some(85), Some(90), Some(95)}

NextConf ==
    \E c \in ConfInputs :
        /\ Len(predictions) < MaxConfRows
        /\ log_prediction(LogArgs(F_img, "Benign", c, None, None, None, None, None))

SpecConf == Init /\ [][NextConf]_vars

-----------------------------------------------------------------------------
(* pages/Prediction.py: one script run of a logged-in session              *)

MaxRuns == 4

\* {CLASS_LABELS[i]: float(probs[i]) for i in range(len(CLASS_LABELS))}: of
\* a label that occurs twice the later index counts
ProbDict(labels, probs) ==
    [l \in Range(labels) |->
        probs[CHOOSE i \in DOMAIN labels :
                 labels[i] = l /\ \A j \in DOMAIN labels : labels[j] = l => j <= i]]

\* What the run passes to log_prediction for the softmax output probs: the
\* user is st.session_state.username, the Patient ID input is left empty
PageLogArgs(labels, probs) ==
    LogArgs(F_img, labels[argmax(probs)], Some(probs[argmax(probs)]), page.username,
            Some("v1"), Some(ProbDict(labels, probs)), None, Some(12))

\* The run from load_model() to the probabilities expander: the arguments
\* for log_prediction, or the exception that ends the run
Inference(probs) ==
    IF load_model.exc # "" THEN Raises(load_model.exc)
    ELSE IF probs = <<>> THEN Raises("ValueError")
    ELSE IF argmax(probs) > Len(CLASS_LABELS) THEN Raises("IndexError")
    ELSE IF Len(CLASS_LABELS) > Len(probs) THEN Raises("IndexError")
    ELSE Returns(PageLogArgs(CLASS_LABELS, probs))

\* The softmax output of the image every session of this page uploads
PageProbs == <<10, 30, 60>>

PageReportPath == "reports/a.pdf"

\* The try block around log_prediction and log_user_activity: both succeed,
\* log_prediction raises, or log_user_activity raises after the row is in
LogOutcomes == {"ok", "log_fails", "activity_fails"}

\* The Download PDF handler: the report is written and both calls succeed,
\* generate_pdf_report raises, update_prediction_report_path raises after
\* the report was written, or the inner log_user_activity raises
PdfOutcomes == {"ok", "pdf_fails", "update_fails", "activity_fails"}

FormButtons == {"pdf", "correct", "incorrect", "uncertain"}

\* What can start a run: a widget interaction without a click, choosing or
\* removing the file, a click on a button the previous run rendered; after
\* st.rerun() the next run starts at once, without a click
PageEvents ==
    IF page.rerun THEN {"none"}
    ELSE {"none"} \cup (IF page.uploaded THEN {"clear"} ELSE {"upload"}) \cup page.widgets

PagePredictionIdAlways(log_ok, id) == Some(id)

\* prediction_id after the try block: None unless log_prediction returned
PagePredictionId(log_ok, id) == IF log_ok THEN Some(id) ELSE None

ActivityRow(rows, username, activity_type) ==
    [id |-> Len(rows) + 1, username |-> username, activity_type |-> activity_type,
     timestamp |-> now]

\* The page after a run: what the run left on the screen (shown), the
\* buttons it rendered, whether it ended in st.rerun()
PageAfter(uploaded, widgets, shown, rerun) ==
    [page EXCEPT !.uploaded = uploaded, !.widgets = widgets, !.shown = shown,
                 !.rerun = rerun, !.runs = @ + 1]

LogFailureAbortsRun(log_outcome) ==
    IF log_outcome = "ok" THEN {"result", "gradcam", "report_section"}
    ELSE {"result", "gradcam", "exception"}

\* What the run has shown when it reaches the report section: the result
\* and the Grad-CAM overlay, and the warning when the logging block caught
\* an exception
ShownAfterLogging(log_outcome) ==
    {"result", "gradcam", "report_section"}
        \cup (IF log_outcome = "ok" THEN {} ELSE {"log_warning"})

\* What the Download PDF handler shows: the download button and the success
\* message when the try block got to its end, the error message when
\* generate_pdf_report or update_prediction_report_path raised
PdfShown(pdf_clicked, pdf_outcome, update_called) ==
    IF ~pdf_clicked THEN {}
    ELSE IF pdf_outcome = "pdf_fails" \/ (pdf_outcome = "update_fails" /\ update_called)
    THEN {"report_error"}
    ELSE {"download_button", "report_success"}

prediction_page(ev, log_outcome, pdf_outcome, feedback_ok, probs) ==
    LET uploaded == IF ev = "upload" THEN TRUE ELSE IF ev = "clear" THEN FALSE
                    ELSE page.uploaded
        id == Len(predictions) + 1
        log_ok == log_outcome # "log_fails"
        inference == Inference(probs)
        crashed == uploaded /\ page.authenticated /\ inference.exc # ""
        prediction_id == PagePredictionId(log_ok, id)
        preds1 == IF log_ok THEN Append(predictions, PredictionRow(Get(inference.ret)))
                  ELSE predictions
        act1 == IF log_outcome = "ok"
                THEN Append(activity, ActivityRow(activity, Get(page.username), "prediction"))
                ELSE activity
        pdf_clicked == ev = "pdf"
        update_called == IsSome(prediction_id)
        pdf_written == pdf_clicked /\ pdf_outcome # "pdf_fails"
        preds2 == IF pdf_written /\ update_called /\ pdf_outcome # "update_fails"
                  THEN SetReportPath(preds1, Get(prediction_id), PageReportPath)
                  ELSE preds1
        act2 == IF pdf_written /\ (pdf_outcome = "ok" \/ (pdf_outcome = "update_fails" /\ ~update_called))
                THEN Append(act1, ActivityRow(act1, Get(page.username), "pdf_download"))
                ELSE act1
        feedback_submitted == ev \in {"correct", "incorrect", "uncertain"}
        shown1 == ShownAfterLogging(log_outcome)
                    \cup PdfShown(pdf_clicked, pdf_outcome, update_called)
    IN  /\ last' = Call("prediction_page", <<ev, log_outcome, pdf_outcome, feedback_ok>>,
                        IF uploaded /\ page.authenticated /\ ~crashed
                        THEN prediction_id ELSE None,
                        IF crashed THEN inference.exc ELSE "")
        /\ UNCHANGED <<users, registered, now, bcryptTruncates, training, conns>>
        /\ gradcam' = IF ~(uploaded /\ page.authenticated) \/ load_model.exc # ""
                      THEN gradcam
                      ELSE IF crashed
                      THEN PageInference(gradcam, Get(load_model.ret), PageImage)
                      ELSE PageGradCam(PageInference(gradcam, Get(load_model.ret), PageImage),
                                       PageImage, argmax(probs) - 1)
        /\ classifier' = IF uploaded /\ page.authenticated /\ load_model.exc = ""
                         THEN [classifier EXCEPT !.fc = load_model.ret] ELSE classifier
        /\ schema' = IF uploaded /\ log_ok /\ page.authenticated /\ ~crashed
                     THEN EnsuredSchema ELSE schema
        /\ IF ~page.authenticated
           THEN /\ page' = [page EXCEPT !.widgets = {"login"}, !.shown = {"login_warning"},
                                        !.rerun = FALSE, !.runs = @ + 1]
                /\ UNCHANGED <<predictions, logged, activity, feedback>>
           ELSE IF ~uploaded
           THEN /\ page' = PageAfter(FALSE, {}, {}, FALSE)
                /\ UNCHANGED <<predictions, logged, activity, feedback>>
           ELSE IF crashed
           THEN /\ page' = PageAfter(TRUE, {}, {"exception"}, FALSE)
                /\ UNCHANGED <<predictions, logged, activity, feedback>>
           ELSE /\ predictions' = preds2
                /\ logged' = IF log_ok THEN Append(logged, Get(inference.ret)) ELSE logged
                /\ activity' = act2
                /\ \E existing_feedback \in
                        (IF IsSome(prediction_id)
                         THEN get_prediction_feedback(Get(prediction_id)) ELSE {None}) :
                      IF IsSome(existing_feedback)
                      THEN /\ feedback' = feedback
                           /\ page' = PageAfter(TRUE, {"pdf"},
                                                shown1 \cup {"existing_feedback"}, FALSE)
                      ELSE IF feedback_submitted /\ IsSome(prediction_id)
                      THEN IF ev \in {"incorrect", "uncertain"}
                           THEN /\ feedback' = feedback
                                /\ page' = PageAfter(TRUE, FormButtons \cup {"submit"},
                                              shown1 \cup {"feedback_form", "feedback_options"},
                                              FALSE)
                           ELSE IF feedback_ok
                           THEN /\ feedback' = Append(feedback,
                                       FeedbackRow(Get(prediction_id), Get(page.username), ev, None, None))
                                /\ page' = PageAfter(TRUE, FormButtons,
                                              shown1 \cup {"feedback_form", "feedback_success"},
                                              TRUE)
                           ELSE /\ feedback' = feedback
                                /\ page' = PageAfter(TRUE, FormButtons,
                                              shown1 \cup {"feedback_form", "feedback_error"},
                                              FALSE)
                      ELSE /\ feedback' = feedback
                           /\ page' = PageAfter(TRUE, FormButtons,
                                                shown1 \cup {"feedback_form"}, FALSE)

\* A run with any event and any outcome of the calls the event leads to
NextPage ==
    \E ev \in PageEvents, log_outcome \in LogOutcomes, pdf_outcome \in PdfOutcomes,
       feedback_ok \in BOOLEAN :
        /\ page.runs < MaxRuns
        /\ ev # "pdf" => pdf_outcome = "ok"
        /\ ev # "correct" => feedback_ok
        /\ prediction_page(ev, log_outcome, pdf_outcome, feedback_ok, PageProbs)

SpecPage == Init /\ [][NextPage]_vars

-----------------------------------------------------------------------------
(* SpecAnalytics: analytics calls on a store that starts empty and grows   *)

MaxAnalyticsRows == 1

AnalyticsLogArgs ==
    {LogArgs(F_img, "Benign", Some(30), Some(U_alice), None, None, None, Some(12)),
     LogArgs(F_img, "Normal", None, None, None, None, None, None)}

AnalyticsLimits == {1, 20}

NextAnalytics ==
    \/ \E name \in AnalyticsNames, limit \in AnalyticsLimits :
          analytics_call(name, U_alice, limit)
    \/ Len(users) < MaxAnalyticsRows /\ create_user(U_alice, PW_strong)
    \/ \E a \in AnalyticsLogArgs : Len(predictions) < MaxAnalyticsRows /\ log_prediction(a)
    \/ \E t \in {"correct", "uncertain"} :
          /\ Len(feedback) < MaxAnalyticsRows
          /\ submit_prediction_feedback(1, U_alice, t, None, None)
    \/ Len(activity) < MaxAnalyticsRows /\ log_user_activity(U_alice, "login")

SpecAnalytics == Init /\ [][NextAnalytics]_vars

-----------------------------------------------------------------------------
(* SpecSchema: a database of any earlier layout, callers one after another *)

MaxSchemaRows == 2

\* Every way to keep some of the wanted columns, in their order
RECURSIVE SubSeqs(_)
SubSeqs(s) ==
    IF s = <<>> THEN {<<>>}
    ELSE LET rest == SubSeqs(Tail(s)) IN rest \cup {<<Head(s)>> \o r : r \in rest}

OldArgs == LogArgs(F_img, "Benign", Some(95), None, None, None, None, None)

\* A row inserted before any optional column existed: NULL in each of them
OldRow ==
    [id |-> 1, filename |-> F_img, predicted_label |-> "Benign", confidence |-> Some(95),
     user |-> None, created_at |-> 0, model_version |-> None, report_path |-> None,
     probabilities |-> None, patient_id |-> None, confidence_score |-> None,
     processing_time_ms |-> None]

\* The database as an earlier version of the code left it: the base columns,
\* some of the optional ones, no row or one row
InitSchema ==
    /\ EmptySession
    /\ page = PageInit /\ training = TrainingInit /\ conns = NoConns
    /\ bcryptTruncates = TRUE
    /\ schema \in {Schema(BASE_COLUMNS \o sub) : sub \in SubSeqs(WANTED)}
    /\ \/ predictions = <<>> /\ logged = <<>>
       \/ predictions = <<OldRow>> /\ logged = <<OldArgs>>

NextSchema ==
    \/ init_db
    \/ \E a \in StoreLogArgs : Len(predictions) < MaxSchemaRows /\ log_prediction(a)
    \/ \E id \in 1..MaxSchemaRows : update_prediction_report_path(id, PageReportPath)

SpecSchema == InitSchema /\ [][NextSchema]_vars

-----------------------------------------------------------------------------
(* SpecEnsureRace: two callers in _ensure_prediction_columns at once, each  *)
(* on a connection of its own                                              *)

InitEnsureRace ==
    /\ EmptySession
    /\ page = PageInit /\ training = TrainingInit /\ conns = NoConns
    /\ bcryptTruncates = TRUE
    /\ predictions = <<>>
    /\ logged = <<>>
    /\ schema \in {Schema(BASE_COLUMNS \o sub) : sub \in SubSeqs(WANTED)}

NextEnsureRace ==
    \/ \E c \in Callers : EnsureBegin(c)
    \/ \E c \in Callers : EnsureStep(c)

SpecEnsureRace == InitEnsureRace /\ [][NextEnsureRace]_vars

-----------------------------------------------------------------------------
(* app.py show_login_form: one submission of the login form                *)

\* The handler of the Login button: both fields needed, then
\* authenticate_user; on success the session is marked, the login is logged
\* inside try / except: pass, the welcome is shown and st.rerun() follows
show_login_form(username, password, activity_outcome) ==
    IF username = <<>> \/ password = <<>>
    THEN /\ last' = Call("show_login_form", <<username, password, activity_outcome>>,
                         Some("provide both username and password"), "")
         /\ UNCHANGED <<users, registered, predictions, logged, feedback, activity, now,
                        bcryptTruncates, page, schema, gradcam, classifier, training, conns>>
    ELSE IF AuthResult(username, password)
    THEN /\ page' = [page EXCEPT !.authenticated = TRUE, !.username = Some(username),
                                 !.shown = {"welcome"}, !.rerun = TRUE]
         /\ activity' = IF activity_outcome = "ok"
                        THEN Append(activity, ActivityRow(activity, username, "login"))
                        ELSE activity
         /\ last' = Call("show_login_form", <<username, password, activity_outcome>>,
                         Some("Welcome back"), "")
         /\ UNCHANGED <<users, registered, predictions, logged, feedback, now,
                        bcryptTruncates, schema, gradcam, classifier, training, conns>>
    ELSE /\ last' = Call("show_login_form", <<username, password, activity_outcome>>,
                         Some("Invalid credentials"), "")
         /\ UNCHANGED <<users, registered, predictions, logged, feedback, activity, now,
                        bcryptTruncates, page, schema, gradcam, classifier, training, conns>>

-----------------------------------------------------------------------------
(* SpecLogging: registration, login and prediction-page runs of a session  *)
(* in which any logging call may raise                                     *)

InitLogging ==
    /\ EmptySession
    /\ page = LoggedOut
    /\ bcryptTruncates = TRUE
    /\ schema = FullSchema
    /\ predictions = <<>>
    /\ logged = <<>>

NextLogging ==
    \/ Len(users) < 1 /\ create_user(U_alice, PW_strong)
    \/ \E u \in {U_alice, <<>>}, p \in {PW_strong, PW_wrong}, o \in {"ok", "fails"} :
          ~page.authenticated /\ show_login_form(u, p, o)
    \/ NextPage

SpecLogging == InitLogging /\ [][NextLogging]_vars

-----------------------------------------------------------------------------
(* SpecInference: page runs over every class-name file, weight file and    *)
(* softmax output, with a training run replacing the files in between      *)

MaxInferenceRuns == 3

\* Percentages a softmax output is made of
ProbValues == {0, 20, 30, 50, 100}

\* The softmax outputs of a model with width outputs
ProbVectors(width) == {p \in [1..width -> ProbValues] : SumSeq(p) = 100}

\* The arrays class_names.json may hold
ClassNameLists ==
    {<<>>, <<"Benign", "Malignant">>, DEFAULT_CLASS_LABELS,
     <<"Benign", "Benign", "Malignant">>}

ClassNameFiles == {NoFile, BadFile} \cup {ClassFile(names) : names \in ClassNameLists}

\* torchvision's ImageFolder names the classes after the directories
TrainedClassNames == {<<"Benign", "Malignant">>, DEFAULT_CLASS_LABELS}

InitInference ==
    /\ page = PageInit /\ training = TrainingInit /\ conns = NoConns /\ schema = FullSchema /\ gradcam = GradCamInit
    /\ users = <<>> /\ predictions = <<>> /\ feedback = <<>> /\ activity = <<>>
    /\ now = 0 /\ last = NoCall /\ registered = {} /\ logged = <<>>
    /\ bcryptTruncates = TRUE
    /\ classifier \in [class_names : ClassNameFiles, weights : {None, Some(3)}, fc : {None}]

NextInference ==
    \/ \E ev \in PageEvents \ FormButtons, log_outcome \in LogOutcomes :
          /\ page.runs < MaxInferenceRuns
          /\ \E probs \in (IF load_model.exc = "" THEN ProbVectors(Get(load_model.ret))
                           ELSE {<<>>}) :
                prediction_page(ev, log_outcome, "ok", TRUE, probs)
    \/ \E class_names \in TrainedClassNames :
          /\ classifier.class_names # ClassFile(class_names)
          /\ train(class_names)

SpecInference == InitInference /\ [][NextInference]_vars

-----------------------------------------------------------------------------
(* SpecGradCam: calls of GradCAM instances on one model, one after another *)

MaxCalls == 2
MaxInstances == 1

\* Linear heads: the page's, one with negative weights, one with a class
\* that no channel supports, one with a class every channel speaks against
Heads ==
    {<<<<1, 0>>, <<0, 1>>>>, <<<<1, -1>>, <<-1, 1>>>>, <<<<0, 0>>, <<1, 1>>>>,
     <<<<-1, -1>>, <<1, 0>>>>}

\* class_idx as passed: none, a class of the model, or one past the last
ClassIdxInputs == {None} \cup {Some(k) : k \in ClassIds} \cup {Some(2)}

InitGradCam ==
    /\ page = PageInit /\ training = TrainingInit /\ conns = NoConns /\ schema = FullSchema /\ classifier = ClassifierInit
    /\ users = <<>> /\ predictions = <<>> /\ feedback = <<>> /\ activity = <<>>
    /\ now = 0 /\ last = NoCall /\ registered = {} /\ logged = <<>>
    /\ bcryptTruncates = TRUE
    /\ \E head \in Heads : gradcam = GradCam(head, <<>>)

NextGradCam ==
    \/ Len(gradcam.instances) < MaxInstances /\ GradCAM_init
    \/ \E inst \in DOMAIN gradcam.instances, x \in Images, class_idx \in ClassIdxInputs :
          /\ gradcam.ncalls < MaxCalls
          /\ GradCAM_call("A", inst, x, class_idx)

SpecGradCam == InitGradCam /\ [][NextGradCam]_vars

-----------------------------------------------------------------------------
(* SpecGradCamRace: two threads (two sessions of the prediction page) call *)
(* Grad-CAM on the cached model, their steps in any order                  *)

MaxRaceCalls == 2
MaxRaceInstances == 2

\* Two uploads whose layer outputs differ
RaceImages ==
    {x \in Images : x[1][1][1] = 1 /\ x[2][1][1] = 0 /\ x[1][2][2] # x[2][2][2]}

InitGradCamRace ==
    /\ page = PageInit /\ training = TrainingInit /\ conns = NoConns /\ schema = FullSchema /\ classifier = ClassifierInit
    /\ users = <<>> /\ predictions = <<>> /\ feedback = <<>> /\ activity = <<>>
    /\ now = 0 /\ last = NoCall /\ registered = {} /\ logged = <<>>
    /\ bcryptTruncates = TRUE
    /\ gradcam = GradCam(PageHead, <<>>)

NextGradCamRace ==
    \/ Len(gradcam.instances) < MaxRaceInstances /\ GradCAM_init
    \/ \E s \in Sessions, inst \in DOMAIN gradcam.instances, x \in RaceImages,
          k \in ClassIds :
          /\ gradcam.ncalls < MaxRaceCalls
          /\ CallForward(s, inst, x, Some(k))
    \/ \E s \in Sessions : CallBackward(s)
    \/ \E s \in Sessions : CallCompute(s)

SpecGradCamRace == InitGradCamRace /\ [][NextGradCamRace]_vars

-----------------------------------------------------------------------------
(* src/preprocess.py center_crop_resize and pages/Prediction.py            *)
(* CenterCropSquare: the centre crop of an image of w x h pixels           *)

\* size: int = 224, and T.Resize((224, 224))
CROP_SIZE == 224

\* A crop that starts in the corner
CornerBox(w, h) == <<0, 0, Min(w, h), Min(w, h)>>

\* The box center_crop_resize passes to img.crop
PreprocessBox(w, h) ==
    LET m == Min(w, h)
        left == (w - m) \div 2
        top == (h - m) \div 2
    IN  <<left, top, left + m, top + m>>

\* The box CenterCropSquare.__call__ passes to img.crop
CenterCropSquareBox(w, h) ==
    LET m == Min(w, h)
        left == (w - m) \div 2
        top == (h - m) \div 2
    IN  <<left, top, left + m, top + m>>

\* Image.crop(box): the size of the region
CropSize(box) == <<box[3] - box[1], box[4] - box[2]>>

\* center_crop_resize(img): crop, then resize to size x size
center_crop_resize ==
    /\ last' = Call("center_crop_resize", last.args,
                    Some([box |-> PreprocessBox(last.args[1], last.args[2]),
                          cropped |-> CropSize(PreprocessBox(last.args[1], last.args[2])),
                          size |-> <<CROP_SIZE, CROP_SIZE>>]), "")
    /\ UNCHANGED <<users, registered, predictions, logged, feedback, activity, now,
                   bcryptTruncates, page, schema, gradcam, classifier, training, conns>>

\* get_transforms() up to the resize: CenterCropSquare(), T.Resize((224, 224))
CenterCropSquare ==
    /\ last' = Call("CenterCropSquare", last.args,
                    Some([box |-> CenterCropSquareBox(last.args[1], last.args[2]),
                          cropped |-> CropSize(CenterCropSquareBox(last.args[1], last.args[2])),
                          size |-> <<CROP_SIZE, CROP_SIZE>>]), "")
    /\ UNCHANGED <<users, registered, predictions, logged, feedback, activity, now,
                   bcryptTruncates, page, schema, gradcam, classifier, training, conns>>

MaxSide == 8

\* An image of w x h pixels just opened
InitCrop ==
    /\ page = PageInit /\ training = TrainingInit /\ conns = NoConns /\ schema = FullSchema /\ classifier = ClassifierInit
    /\ gradcam = GradCamInit
    /\ users = <<>> /\ predictions = <<>> /\ feedback = <<>> /\ activity = <<>>
    /\ now = 0 /\ registered = {} /\ logged = <<>>
    /\ bcryptTruncates = TRUE
    /\ \E w \in 1..MaxSide, h \in 1..MaxSide : last = Call("Image.open", <<w, h>>, None, "")

NextCrop == center_crop_resize \/ CenterCropSquare

SpecCrop == InitCrop /\ [][NextCrop]_vars

-----------------------------------------------------------------------------
(* src/utils/analytics.py: get_daily_predictions                            *)

\* The clock counts in steps; a calendar day is this many steps long
TicksPerDay == 2

\* DATE(created_at), strftime("%Y-%m-%d"): the day a time falls on
DATE(t) == t \div TicksPerDay

\* The offsets of the server's local time from UTC, in clock steps.
\* created_at is CURRENT_TIMESTAMP (UTC), datetime.now() is local time.
UtcOffsets == {0 - 1, 0, 1}

\* cutoff = (datetime.now() - timedelta(days=days)).strftime("%Y-%m-%d"):
\* the local date of now, moved back by whole days, the time of day dropped
DailyCutoff(days, utc_offset) == DATE((now + utc_offset) - days * TicksPerDay)

\* WHERE created_at >= ?: the text 'YYYY-MM-DD hh:mm:ss' against the text
\* 'YYYY-MM-DD'; a timestamp of the cutoff date is the longer text, so greater
CreatedAtGeCutoff(created_at, cutoff) == DATE(created_at) >= cutoff

DailyRows(days, utc_offset) ==
    LET Since(r) == CreatedAtGeCutoff(r.created_at, DailyCutoff(days, utc_offset))
    IN  SelectSeq(predictions, Since)

\* ORDER BY date ASC over a set of dates
RECURSIVE OrderByDateAsc(_)
OrderByDateAsc(dates) ==
    IF dates = {} THEN <<>>
    ELSE LET first == CHOOSE d \in dates : \A e \in dates : d <= e
         IN  <<first>> \o OrderByDateAsc(dates \ {first})

\* GROUP BY DATE(created_at) with COUNT(*), ORDER BY date ASC
GroupByDate(rows) ==
    LET dates == OrderByDateAsc({DATE(rows[i].created_at) : i \in DOMAIN rows})
        OnDate(d) == LET Same(r) == DATE(r.created_at) = d IN Len(SelectSeq(rows, Same))
    IN  [i \in DOMAIN dates |-> <<dates[i], OnDate(dates[i])>>]

get_daily_predictions(days, utc_offset) ==
    /\ last' = Call("get_daily_predictions", <<days, utc_offset>>,
                    Some(GroupByDate(DailyRows(days, utc_offset))), "")
    /\ UNCHANGED <<users, registered, predictions, logged, feedback, activity, now,
                   bcryptTruncates, page, schema, gradcam, classifier, training, conns>>

MaxDailyClock == 4
MaxDailyRows == 2
DailyDays == 0 .. 1

\* CURRENT_TIMESTAMP moves on, over more than a day
DailyTick ==
    /\ now < MaxDailyClock
    /\ now' = now + 1
    /\ last' = Call("tick", <<>>, None, "")
    /\ UNCHANGED <<users, registered, predictions, logged, feedback, activity,
                   bcryptTruncates, page, schema, gradcam, classifier, training, conns>>

NextDaily ==
    \/ DailyTick
    \/ \E a \in AnalyticsLogArgs : Len(predictions) < MaxDailyRows /\ log_prediction(a)
    \/ \E days \in DailyDays, utc_offset \in UtcOffsets :
          get_daily_predictions(days, utc_offset)

SpecDaily == Init /\ [][NextDaily]_vars

-----------------------------------------------------------------------------
(* SpecTrain: one run of train.py main, any validation accuracy per epoch  *)

NextTrain ==
    \/ \E class_names \in ClassNameLists : train_main(class_names)
    \/ \E val_acc \in VAL_IMAGES : train_epoch(val_acc)

SpecTrain == Init /\ [][NextTrain]_vars

-----------------------------------------------------------------------------
(* SpecConn: scopes of get_conn, entered and left in any order             *)

MaxConns == 3

NextConn ==
    \/ Len(conns) < MaxConns /\ get_conn_enter
    \/ \E i \in DOMAIN conns, body \in BodyOutcomes, commit \in CommitOutcomes :
          get_conn_exit(i, body, commit)

SpecConn == Init /\ [][NextConn]_vars

-----------------------------------------------------------------------------
(* SpecPassword: validate_password on passwords of every make-up           *)

\* One character of each class the checks look for; a blank is in none
ClassChars == {"Q", "q", "7", "?"}

\* The lengths around the two limits, and a short one
PasswordLengths ==
    {4, MIN_PASSWORD_LEN - 1, MIN_PASSWORD_LEN, MAX_PASSWORD_LEN, MAX_PASSWORD_LEN + 1}

\* A password of n characters holding exactly the characters of chars, and blanks
PasswordOf(chars, n) == SeqOfSet(chars) \o Rep(" ", n - Cardinality(chars))

\* The listed weak passwords, as listed and with a capital first letter
Capitalized(s) ==
    [i \in DOMAIN s |->
        IF i = 1 /\ \E u \in UpperChars : LowerOf(u) = s[1]
        THEN CHOOSE u \in UpperChars : LowerOf(u) = s[1]
        ELSE s[i]]

PasswordInputs ==
    {PasswordOf(chars, n) : chars \in SUBSET ClassChars, n \in PasswordLengths}
        \cup common_passwords
        \cup {Capitalized(s) : s \in common_passwords}
        \cup {Capitalized(s) \o <<"!">> : s \in common_passwords}
        \cup {PW_strong, PW_noupper, PW_nolower, PW_nodigit, PW_nospecial, PW_toolong}

\* The password typed into a form
InitPassword ==
    /\ page = PageInit /\ training = TrainingInit /\ conns = NoConns
    /\ schema = FullSchema /\ classifier = ClassifierInit /\ gradcam = GradCamInit
    /\ users = <<>> /\ predictions = <<>> /\ feedback = <<>> /\ activity = <<>>
    /\ now = 0 /\ registered = {} /\ logged = <<>>
    /\ bcryptTruncates = TRUE
    /\ \E password \in PasswordInputs : last = Call("input", password, None, "")

validate_password_call ==
    /\ last.op = "input"
    /\ last' = Call("validate_password", last.args, Some(validate_password(last.args)), "")
    /\ UNCHANGED <<users, registered, predictions, logged, feedback, activity, now,
                   bcryptTruncates, page, schema, gradcam, classifier, training, conns>>

NextPassword == validate_password_call

SpecPassword == InitPassword /\ [][NextPassword]_vars

-----------------------------------------------------------------------------
(* src/utils/analytics.py: get_low_confidence_predictions (the later def)  *)

\* predictions p LEFT JOIN prediction_feedback f ON p.id = f.prediction_id:
\* a prediction once for every feedback row of it, once with NULLs for none
LeftJoined ==
    {[p |-> predictions[m[1]], feedback_type |-> Some(feedback[m[2]].feedback_type),
      f |-> m[2]] :
        m \in {m \in (DOMAIN predictions) \X (DOMAIN feedback) :
                  feedback[m[2]].prediction_id = predictions[m[1]].id}}
    \cup
    {[p |-> predictions[i], feedback_type |-> None, f |-> 0] :
        i \in {i \in DOMAIN predictions :
                  \A k \in DOMAIN feedback : feedback[k].prediction_id # predictions[i].id}}

\* WHERE p.confidence < ?: a NULL confidence is not below anything
BelowThreshold(joined, threshold) ==
    {j \in joined : IsSome(j.p.confidence) /\ Get(j.p.confidence) < threshold}

\* ORDER BY p.confidence ASC, p.created_at DESC: every order of the rows that
\* agrees with the two keys (rows equal in both come in any order)
OrderByConfidence(rows) ==
    {s \in [1..Cardinality(rows) -> rows] :
        /\ Range(s) = rows
        /\ \A i, j \in DOMAIN s : i < j =>
              \/ Get(s[i].p.confidence) < Get(s[j].p.confidence)
              \/ /\ Get(s[i].p.confidence) = Get(s[j].p.confidence)
                 /\ s[i].p.created_at >= s[j].p.created_at}

\* dict(row): the seven selected columns
LowConfidenceRow(j) ==
    [id |-> j.p.id, filename |-> j.p.filename, predicted_label |-> j.p.predicted_label,
     confidence |-> j.p.confidence, user |-> j.p.user, created_at |-> j.p.created_at,
     feedback_type |-> j.feedback_type]

\* Every list the call can return
LowConfidenceResults(threshold, limit) ==
    {[i \in DOMAIN Limit(s, limit) |-> LowConfidenceRow(s[i])] :
        s \in OrderByConfidence(BelowThreshold(LeftJoined, threshold))}

get_low_confidence_predictions(threshold, limit) ==
    /\ \E rows \in LowConfidenceResults(threshold, limit) :
          last' = Call("get_low_confidence_predictions", <<threshold, limit>>, Some(rows), "")
    /\ UNCHANGED <<users, registered, predictions, logged, feedback, activity, now,
                   bcryptTruncates, page, schema, gradcam, classifier, training, conns>>

MaxLowRows == 2
MaxLowFeedback == 2

LowLogArgs ==
    {LogArgs(F_img, "Benign", Some(30), Some(U_alice), None, None, None, None),
     LogArgs(F_img, "Malignant", Some(60), Some(U_alice), None, None, None, None),
     LogArgs(F_img, "Normal", None, None, None, None, None, None)}

LowThresholds == {50, 70}
LowLimits == {1, 50}

NextLow ==
    \/ \E a \in LowLogArgs : Len(predictions) < MaxLowRows /\ log_prediction(a)
    \/ \E id \in 1..MaxLowRows, t \in {"correct", "incorrect"} :
          /\ Len(feedback) < MaxLowFeedback
          /\ id <= Len(predictions)
          /\ submit_prediction_feedback(id, U_alice, t, None, None)
    \/ \E threshold \in LowThresholds, limit \in LowLimits :
          get_low_confidence_predictions(threshold, limit)

SpecLow == Init /\ [][NextLow]_vars

-----------------------------------------------------------------------------
(* pages/Home.py and pages/Admin_Dashboard.py: logout and the admin check  *)

U_admin == <<"a", "d", "m", "i", "n">>

\* settings.admin_users
admin_users == {U_admin}

AnyoneIsAdmin(username) == TRUE

\* is_admin = username in settings.admin_users
is_admin(username) == IsSome(username) /\ Get(username) \in admin_users

\* The page after a run of another page than Prediction.py: the uploader of
\* the prediction page is not rendered, so its file is dropped
OtherPage(widgets, shown, rerun) ==
    [page EXCEPT !.uploaded = FALSE, !.widgets = widgets, !.shown = shown, !.rerun = rerun]

\* One run of pages/Home.py; ev is "logout" for a click on the Logout button
home_page(ev) ==
    /\ page' = IF ~page.authenticated
               THEN OtherPage({"login"}, {"login_warning"}, FALSE)
               ELSE IF ev = "logout"
               THEN [OtherPage({}, {"logged_out"}, TRUE)
                        EXCEPT !.authenticated = FALSE, !.username = None]
               ELSE OtherPage({"logout"}, {"home"}, FALSE)
    /\ last' = Call("home_page", <<ev>>, None, "")
    /\ UNCHANGED <<users, registered, predictions, logged, feedback, activity, now,
                   bcryptTruncates, schema, gradcam, classifier, training, conns>>

\* One run of pages/Admin_Dashboard.py: st.stop() for a session that is not
\* logged in or whose user is no admin, the analytics queries otherwise
\* (the return value is that of the first one, get_total_users)
admin_dashboard ==
    /\ page' = IF ~page.authenticated
               THEN OtherPage({"login"}, {"login_warning"}, FALSE)
               ELSE IF ~is_admin(page.username)
               THEN OtherPage({"home"}, {"access_denied"}, FALSE)
               ELSE OtherPage({"home"}, {"admin_dashboard"}, FALSE)
    /\ last' = Call("admin_dashboard", <<>>,
                    IF page.authenticated /\ is_admin(page.username)
                    THEN Some(get_total_users) ELSE None, "")
    /\ UNCHANGED <<users, registered, predictions, logged, feedback, activity, now,
                   bcryptTruncates, schema, gradcam, classifier, training, conns>>

-----------------------------------------------------------------------------
(* SpecSession: logins, failed logins, logouts and page visits of a session *)

MaxSessionRuns == 2
MaxSessionLogins == 2

SessionUsers == {U_alice, U_admin}

\* The buttons of the prediction page
PredictionPageEvents == PageEvents \ {"login", "logout", "home"}

NextSession ==
    \/ \E u \in SessionUsers : Len(users) < 2 /\ create_user(u, PW_strong)
    \/ \E u \in SessionUsers \cup {<<>>}, p \in {PW_strong, PW_wrong} :
          /\ ~page.authenticated
          /\ Len(activity) < MaxSessionLogins
          /\ show_login_form(u, p, "ok")
    \/ \E ev \in {"none", "logout"} :
          /\ ev = "logout" => "logout" \in page.widgets
          /\ home_page(ev)
    \/ admin_dashboard
    \/ \E ev \in PredictionPageEvents :
          /\ page.runs < MaxSessionRuns
          /\ prediction_page(ev, "ok", "ok", TRUE, PageProbs)

SpecSession == InitLogging /\ [][NextSession]_vars

-----------------------------------------------------------------------------
(* Claims                                                                  *)

UniqueUsernames ==
    \A i, j \in DOMAIN users : users[i].username = users[j].username => i = j

\* C1: create_user(u, p) returns True and adds exactly one row for u when no
\* user named u exists; when one exists it returns False, raises nothing and
\* leaves the table unchanged; so every username occurs at most once.
C1_CreateUserContract ==
    /\ [][last'.op = "create_user" =>
            LET u == last'.args[1]
            IN  IF UserRows(u) = {}
                THEN /\ last'.exc = "" /\ last'.ret = Some(TRUE)
                     /\ Len(users') = Len(users) + 1
                     /\ SubSeq(users', 1, Len(users)) = users
                     /\ users'[Len(users')].username = u
                ELSE /\ last'.exc = "" /\ last'.ret = Some(FALSE)
                     /\ users' = users]_vars
    /\ []UniqueUsernames

\* C2: authenticate_user(u, p) returns True exactly when u is registered and
\* p is the password of the create_user call that registered u; it never
\* changes the store.
C2_AuthenticateExactly ==
    /\ [](\A u \in AuthUsernames, p \in AuthPasswords :
            AuthResult(u, p) <=> <<u, p>> \in registered)
    /\ [][last'.op = "authenticate_user" =>
            UNCHANGED <<users, predictions, feedback, activity>>]_vars

\* C3: a registration submission that a validation check rejects shows that
\* check's message and creates no user row; create_user is called only
\* after all checks passed.
C3_RejectedCreatesNoUser ==
    [][last'.op = "show_register_form" =>
          LET u == last'.args[1]
              p == last'.args[2]
              c == last'.args[3]
              passed == /\ u # <<>> /\ p # <<>> /\ c # <<>>
                        /\ Len(u) >= MIN_USERNAME_LEN /\ Len(u) <= MAX_USERNAME_LEN
                        /\ (isalnum(u) \/ "_" \in Range(u))
                        /\ p = c
                        /\ validate_password(p)[1]
          IN  /\ last'.ret.create_user_called => passed
              /\ ~passed => /\ users' = users
                            /\ IsSome(last'.ret.message)
                            /\ Get(last'.ret.message) \notin
                                 {"Account created successfully", "Username already exists"}
      ]_vars

C3_Witness ==
    /\ last.op = "show_register_form"
    /\ last.ret = FormResult(Some("at least 1 number"), FALSE)
    /\ Len(users) >= 1

\* What C4 asks of a row read back for the call with arguments a: the same
\* label and confidence, and NULL for every optional the call left out.
ReadsBack(r, a) ==
    /\ r.predicted_label = a.predicted_label
    /\ r.confidence = a.confidence
    /\ \A f \in {"user", "model_version", "probabilities", "patient_id",
                 "processing_time_ms"} \cap DOMAIN r : a[f] = None => r[f] = None

HasProbabilities(r, a) == "probabilities" \in DOMAIN r /\ r.probabilities = a.probabilities

ReadLimits == 1..(MaxRoundTripRows + 1)

Supplied(a) == IsSome(a.confidence) /\ IsSome(a.probabilities)

\* C4 as stated: after log_prediction with a label, a confidence and a
\* probabilities mapping, the row with the returned id read through
\* fetch_predictions or through get_recent_predictions_full has the same
\* label, confidence and probabilities mapping, and NULL for the optional
\* fields that were not supplied.
C4_RoundTripThroughBothReads ==
    \A id \in DOMAIN logged : Supplied(logged[id]) =>
        \A limit \in ReadLimits :
            /\ \A res \in fetch_predictions(limit) : \A i \in DOMAIN res :
                  res[i].id = id =>
                      ReadsBack(res[i], logged[id]) /\ HasProbabilities(res[i], logged[id])
            /\ \A res \in get_recent_predictions_full(limit) : \A i \in DOMAIN res :
                  res[i].id = id =>
                      ReadsBack(res[i], logged[id]) /\ HasProbabilities(res[i], logged[id])

\* C4 amended: the label, the confidence and the NULLs read back through both
\* functions; the probabilities mapping reads back through
\* get_recent_predictions_full only (fetch_predictions does not select it).
C4_RoundTrip ==
    \A id \in DOMAIN logged : Supplied(logged[id]) =>
        \A limit \in ReadLimits :
            /\ \A res \in fetch_predictions(limit) : \A i \in DOMAIN res :
                  res[i].id = id => ReadsBack(res[i], logged[id])
            /\ \A res \in get_recent_predictions_full(limit) : \A i \in DOMAIN res :
                  res[i].id = id =>
                      ReadsBack(res[i], logged[id]) /\ HasProbabilities(res[i], logged[id])

C4_Witness ==
    /\ Len(predictions) >= 2
    /\ last.op = "log_prediction"
    /\ last.args.probabilities = Some(ProbsEmpty)
    /\ logged[1].probabilities = Some(ProbsAll)
    /\ \E res \in get_recent_predictions_full(1) :
          res[1].id = Get(last.ret) /\ res[1].probabilities = Some(ProbsEmpty)
    /\ \E res \in fetch_predictions(2) : res[2].id = 1 /\ res[2].report_path # None

FeedbackFor(p) == LET IsFor(f) == f.prediction_id = p IN SelectSeq(feedback, IsFor)

FbPredictionIds == 1..(MaxFbPredictions + 1)

\* C6: get_prediction_feedback(p) returns None when no feedback row has
\* prediction_id p, and otherwise exactly the row for p that was submitted
\* last, also when several rows exist for p.
C6_ReturnsLastSubmitted ==
    \A p \in FbPredictionIds :
        get_prediction_feedback(p) =
            IF FeedbackFor(p) = <<>> THEN {None}
            ELSE {Some(FeedbackFor(p)[Len(FeedbackFor(p))])}

FlaggedLimits == 1..(MaxFeedback + 1)

PredictionExists(id) == \E i \in DOMAIN predictions : predictions[i].id = id

NumFlagged ==
    LET IsFlagged(f) == f.feedback_type \in {"incorrect", "uncertain"} /\ PredictionExists(f.prediction_id)
    IN  Len(SelectSeq(feedback, IsFlagged))

\* C8: get_flagged_predictions(limit) returns only 'incorrect' and
\* 'uncertain' feedback, each joined to its prediction, newest feedback first,
\* at most limit entries; an 'incorrect' feedback with an actual_label for an
\* existing prediction is in the list while fewer than limit flagged rows
\* exist; no 'correct' feedback is ever in it.
C8_FlaggedNewestFirst ==
    \A limit \in FlaggedLimits : \A rows \in FlaggedJoined(limit) :
        LET res == FlaggedRows(rows)
        IN  /\ Len(res) <= limit
            /\ \A i \in DOMAIN res :
                  /\ res[i].feedback_type \in {"incorrect", "uncertain"}
                  /\ res[i].feedback_type # "correct"
                  /\ PredictionExists(res[i].id)
                  /\ rows[i].f.prediction_id = res[i].id
            /\ \A i, j \in DOMAIN rows : i < j => rows[i].f.id > rows[j].f.id
            /\ \A k \in DOMAIN feedback :
                  ( /\ feedback[k].feedback_type = "incorrect"
                    /\ IsSome(feedback[k].actual_label)
                    /\ PredictionExists(feedback[k].prediction_id)
                    /\ NumFlagged < limit )
                  => \E i \in DOMAIN res :
                        /\ res[i].id = feedback[k].prediction_id
                        /\ res[i].actual_label = feedback[k].actual_label

NumOfType(t) == LET IsT(f) == f.feedback_type = t IN Len(SelectSeq(feedback, IsT))

NoOrphanFeedback == \A k \in DOMAIN feedback : PredictionExists(feedback[k].prediction_id)

\* C9: get_model_accuracy_with_feedback reports correct_count and
\* incorrect_count of the 'correct' and 'incorrect' feedback rows (every
\* feedback row referencing an existing prediction, as the data model
\* requires), total_reviewed = correct_count + incorrect_count and accuracy =
\* 100 * correct / (correct + incorrect); submitting an 'uncertain' feedback
\* never changes its result; get_feedback_stats reports the 'uncertain'
\* count on its own.
C9_AccuracyExcludesUncertain ==
    /\ [](LET r == get_model_accuracy_with_feedback
              correct == NumOfType("correct")
              incorrect == NumOfType("incorrect")
          IN  /\ r.total_reviewed = r.correct_count + r.incorrect_count
              /\ IF r.total_reviewed > 0
                 THEN r.accuracy.num * r.total_reviewed
                        = 100 * r.correct_count * r.accuracy.den
                 ELSE r.accuracy.num = 0
              /\ NoOrphanFeedback =>
                    /\ r.correct_count = correct
                    /\ r.incorrect_count = incorrect
                    /\ IF correct + incorrect > 0
                       THEN r.accuracy.num * (correct + incorrect)
                              = 100 * correct * r.accuracy.den
                       ELSE r.accuracy.num = 0
              /\ ("uncertain" \in DOMAIN get_feedback_stats) <=> (NumOfType("uncertain") > 0)
              /\ NumOfType("uncertain") > 0 =>
                    get_feedback_stats["uncertain"] = NumOfType("uncertain"))
    /\ [][(last'.op = "submit_prediction_feedback" /\ last'.args[3] = "uncertain")
            => get_model_accuracy_with_feedback' = get_model_accuracy_with_feedback]_vars

C9_Witness ==
    /\ NoOrphanFeedback
    /\ NumOfType("correct") = 1 /\ NumOfType("incorrect") = 1 /\ NumOfType("uncertain") = 1
    /\ last.op = "submit_prediction_feedback" /\ last.args[3] = "uncertain"
    /\ get_model_accuracy_with_feedback.accuracy = Ratio(100, 2)
    /\ get_feedback_stats["uncertain"] = 1

\* C5: a prediction row never disappears and keeps its id; once inserted it
\* changes only in a call update_prediction_report_path(id, path) with its
\* own id, and then only in report_path, which becomes path; the other rows
\* are untouched, and a call with an id no row has changes no row.
C5_OnlyReportPathChanges ==
    [][ /\ Len(predictions') >= Len(predictions)
        /\ \A i \in DOMAIN predictions :
              /\ predictions'[i].id = predictions[i].id
              /\ predictions'[i] # predictions[i] =>
                    /\ last'.op = "update_prediction_report_path"
                    /\ last'.args[1] = predictions[i].id
                    /\ predictions'[i] =
                         [predictions[i] EXCEPT !.report_path = Some(last'.args[2])]
        /\ last'.op = "update_prediction_report_path" =>
              /\ Len(predictions') = Len(predictions)
              /\ \A i \in DOMAIN predictions :
                    predictions[i].id = last'.args[1] =>
                        predictions'[i].report_path = Some(last'.args[2])
              /\ ~PredictionExists(last'.args[1]) => predictions' = predictions
      ]_vars

C5_Witness ==
    /\ Len(predictions) = 2
    /\ last.op = "update_prediction_report_path"
    /\ last.args[1] = 2
    /\ predictions[2].report_path = Some(last.args[2])
    /\ predictions[1].report_path = None
    /\ predictions[2].predicted_label = logged[2].predicted_label

RECURSIVE SumCounts(_)
SumCounts(dist) == IF dist = <<>> THEN 0 ELSE dist[1].count + SumCounts(Tail(dist))

\* The number of predictions with a non-null confidence c, lo <= c < hi
NumConfidenceIn(lo, hi) ==
    LET In(r) == IsSome(r.confidence) /\ lo <= Get(r.confidence) /\ Get(r.confidence) < hi
    IN  Len(SelectSeq(predictions, In))

NumConfidenceBelow(hi) ==
    LET In(r) == IsSome(r.confidence) /\ Get(r.confidence) < hi IN Len(SelectSeq(predictions, In))

NumConfidenceFrom(lo) ==
    LET In(r) == IsSome(r.confidence) /\ lo <= Get(r.confidence) IN Len(SelectSeq(predictions, In))

NumConfidenceIs(c) ==
    LET Is(r) == r.confidence = Some(c) IN Len(SelectSeq(predictions, Is))

NumWithConfidence == LET Has(r) == IsSome(r.confidence) IN Len(SelectSeq(predictions, Has))

CountOfRange(dist, range) ==
    LET Is(e) == e.range = range IN SumCounts(SelectSeq(dist, Is))

\* C10: get_confidence_distribution counts every prediction with a non-null
\* confidence in exactly one bucket: below 0.5 in '0-50%', from 0.5 below 0.7
\* in '50-70%', from 0.7 below 0.8 in '70-80%', from 0.8 below 0.9 in
\* '80-90%', the others in '90-100%'; the counts sum to the number of such
\* predictions; confidences 0.3, 0.55, 0.75, 0.85, 0.95 give 1 in each bucket.
C10_ConfidenceBuckets ==
    LET dist == get_confidence_distribution
    IN  /\ \A i \in DOMAIN dist : dist[i].range \in Range(RangeOrder)
        /\ \A i, j \in DOMAIN dist : dist[i].range = dist[j].range => i = j
        /\ CountOfRange(dist, "0-50%") = NumConfidenceBelow(50)
        /\ CountOfRange(dist, "50-70%") = NumConfidenceIn(50, 70)
        /\ CountOfRange(dist, "70-80%") = NumConfidenceIn(70, 80)
        /\ CountOfRange(dist, "80-90%") = NumConfidenceIn(80, 90)
        /\ CountOfRange(dist, "90-100%") = NumConfidenceFrom(90)
        /\ SumCounts(dist) = NumWithConfidence
        /\ ( /\ Len(predictions) = 5
             /\ \A c \in {30, 55, 75, 85, 95} : NumConfidenceIs(c) = 1 )
            => dist = <<[range |-> "0-50%", count |-> 1], [range |-> "50-70%", count |-> 1],
                        [range |-> "70-80%", count |-> 1], [range |-> "80-90%", count |-> 1],
                        [range |-> "90-100%", count |-> 1]>>

C10_Witness ==
    /\ Len(predictions) = 5
    /\ predictions[1].confidence = Some(95)
    /\ predictions[2].confidence = Some(30)
    /\ predictions[3].confidence = Some(85)
    /\ predictions[4].confidence = Some(55)
    /\ predictions[5].confidence = Some(75)
    /\ Len(get_confidence_distribution) = 5
    /\ \A i \in 1..5 : get_confidence_distribution[i].count = 1

\* C7: in the prediction-page workflow every prediction_feedback row has the
\* id of an existing predictions row as its prediction_id, and a run stores
\* feedback only with the id its own successful log_prediction returned.
C7_FeedbackReferencesPrediction ==
    /\ [](\A k \in DOMAIN feedback : PredictionExists(feedback[k].prediction_id))
    /\ [][Len(feedback') > Len(feedback) =>
            /\ Len(feedback') = Len(feedback) + 1
            /\ Len(logged') = Len(logged) + 1
            /\ last'.ret = Some(Len(logged'))
            /\ feedback'[Len(feedback')].prediction_id = Len(logged')
            /\ predictions'[Len(predictions')].id = Len(logged')]_vars

C7_Witness ==
    /\ last.op = "prediction_page"
    /\ last.args[1] = "correct"
    /\ last.ret = None
    /\ Len(feedback) = 1
    /\ Len(predictions) = 2

StoreIsEmpty ==
    users = <<>> /\ predictions = <<>> /\ feedback = <<>> /\ activity = <<>>

\* What C11 asks of each function on the empty store: totals 0, averages
\* 0.0, histograms, listings and dicts empty, summaries made of those (a
\* date that does not exist is None), feedback accuracy 0.0 with sample_size 0
EmptyStoreResult(name) ==
    CASE name \in {"get_total_users", "get_total_predictions",
                   "get_user_total_predictions"} -> 0
      [] name \in {"get_average_confidence", "get_user_average_confidence"} -> Ratio(0, 1)
      [] name \in {"get_predictions_by_class", "get_confidence_by_class",
                   "get_user_predictions_by_class", "get_recent_predictions_full",
                   "get_confidence_distribution", "get_flagged_predictions"} -> <<>>
      [] name = "get_model_performance_summary" ->
            [total_predictions |-> 0, average_confidence |-> Ratio(0, 1),
             min_confidence |-> Ratio(0, 1), max_confidence |-> Ratio(0, 1),
             class_distribution |-> <<>>, average_processing_time_ms |-> 0]
      [] name = "get_user_activity_stats" ->
            [activity_counts |-> <<>>, first_activity |-> None, last_activity |-> None,
             registered_at |-> None, total_logins |-> 0, total_predictions |-> 0,
             total_pdf_downloads |-> 0]
      [] name = "get_user_feedback_stats" ->
            [total_feedback |-> 0, correct |-> 0, incorrect |-> 0, uncertain |-> 0,
             agreement_rate |-> Ratio(0, 1)]
      [] name = "get_feedback_stats" -> [total |-> 0]
      [] name = "get_model_accuracy_with_feedback" ->
            [total_reviewed |-> 0, correct_count |-> 0, incorrect_count |-> 0,
             accuracy |-> Ratio(0, 1), sample_size |-> 0]

EachWantedOnce(columns) ==
    \A w \in Range(WANTED) : Cardinality({i \in DOMAIN columns : columns[i] = w}) = 1

IsPrefix(s, t) == Len(s) <= Len(t) /\ SubSeq(t, 1, Len(s)) = s

EnsureOps == {"init_db", "log_prediction", "update_prediction_report_path"}

\* C12: after any run of the column-ensure routine every wanted column is
\* present exactly once; a run never removes or renames a column and never
\* changes an existing row; a run on a table that has every wanted column
\* (any run after the first) issues no ALTER TABLE and leaves the columns as
\* they are.
C12_EnsureIdempotent ==
    [][ /\ IsPrefix(schema.columns, schema'.columns)
        /\ last'.op \in EnsureOps => EachWantedOnce(schema'.columns)
        /\ EachWantedOnce(schema.columns) =>
              schema'.columns = schema.columns /\ schema'.alters = schema.alters
        /\ last'.op = "init_db" => predictions' = predictions
        /\ last'.op = "log_prediction" => IsPrefix(predictions, predictions')
        /\ schema'.alters - schema.alters = Len(schema'.columns) - Len(schema.columns)
      ]_vars

C12_Witness ==
    /\ last.op = "init_db"
    /\ schema.alters = 3
    /\ EachWantedOnce(schema.columns)
    /\ schema.columns[7] = "report_path"
    /\ Len(predictions) = 2
    /\ predictions[1] = OldRow

\* C13: when two callers run the column-ensure routine concurrently on a
\* table that lacks optional columns, in every interleaving neither caller
\* fails, and when both are through the table has each wanted column
\* exactly once.
C13_ConcurrentEnsureSafe ==
    /\ \A c \in Callers : schema.callers[c].pc # "failed"
    /\ (\A c \in Callers : schema.callers[c].pc = "done") => EachWantedOnce(schema.columns)

\* C14: when log_prediction or log_user_activity raises in a run of the
\* prediction page, the run still shows the result and the Grad-CAM overlay,
\* warns, goes on to the report and feedback sections and ends without an
\* exception; when log_user_activity raises during a login with valid
\* credentials, the session is logged in all the same.
C14_LoggingFailuresCaught ==
    [][ /\ ( /\ last'.op = "prediction_page"
             /\ page.authenticated
             /\ page'.uploaded
             /\ last'.args[2] \in {"log_fails", "activity_fails"} )
           => /\ {"result", "gradcam", "log_warning", "report_section"} \subseteq page'.shown
              /\ "feedback_form" \in page'.shown \/ "existing_feedback" \in page'.shown
              /\ "exception" \notin page'.shown
              /\ last'.exc = ""
              /\ last'.args[2] = "log_fails" => predictions' = predictions
        /\ ( /\ last'.op = "show_login_form"
             /\ last'.args[1] # <<>> /\ last'.args[2] # <<>>
             /\ AuthResult(last'.args[1], last'.args[2])
             /\ last'.args[3] = "fails" )
           => /\ page'.authenticated
              /\ page'.username = Some(last'.args[1])
              /\ last'.exc = ""
              /\ activity' = activity
      ]_vars

C14_Witness ==
    /\ page.authenticated
    /\ activity = <<>>
    /\ last.op = "prediction_page"
    /\ last.args[2] = "log_fails"
    /\ {"result", "gradcam", "log_warning", "report_section", "feedback_form"}
          \subseteq page.shown
    /\ predictions = <<>>

\* C15: when update_prediction_report_path fails after generate_pdf_report
\* has written the PDF, the run still offers the PDF for download and does
\* not report the report generation as failed.
C15_ReportPathFailureNonBlocking ==
    [][ ( /\ last'.op = "prediction_page"
          /\ page.authenticated
          /\ page'.uploaded
          /\ last'.args[1] = "pdf"
          /\ last'.args[3] = "update_fails"
          /\ IsSome(last'.ret) )
        => /\ "download_button" \in page'.shown
           /\ "report_error" \notin page'.shown
      ]_vars

\* C16: every row the prediction page logs has a predicted_label of the
\* configured class list, and its stored confidence is the entry of
\* predicted_label in its stored probabilities, which is the largest entry,
\* whatever the class-name file holds.
C16_LoggedLabelAndConfidence ==
    [][ ( last'.op = "prediction_page" /\ Len(predictions') = Len(predictions) + 1 )
        => LET r == predictions'[Len(predictions')]
               stored == json_loads(Get(r.probabilities))
           IN  /\ \E i \in 1..Len(CLASS_LABELS) : CLASS_LABELS[i] = r.predicted_label
               /\ IsSome(r.probabilities)
               /\ r.predicted_label \in DOMAIN stored
               /\ r.confidence = Some(stored[r.predicted_label])
               /\ \A l \in DOMAIN stored : stored[l] <= stored[r.predicted_label]
      ]_vars

\* C17: every Grad-CAM call with a class of the model returns a map with
\* the rows and columns of the target layer's output whose values all lie in
\* [0, 1]; a constant map divides by the epsilon alone and comes out as zeros.
C17_CamInUnitRange ==
    [][ ( last'.op = "GradCAM.__call__" /\ last'.args[4] \in {None} \cup {Some(k) : k \in ClassIds} )
        => /\ last'.exc = ""
           /\ IsSome(last'.ret)
           /\ LET cam == Get(last'.ret)
                  self == gradcam'.instances[last'.args[2]]
                  raw == relu(WeightedSum(Get(self.gradients).value, Get(self.activations).value))
              IN  /\ DOMAIN cam = 1..LayerShape[1]
                  /\ \A h \in DOMAIN cam :
                        /\ DOMAIN cam[h] = 1..LayerShape[2]
                        /\ \A w \in DOMAIN cam[h] :
                              /\ cam[h][w].den > 0
                              /\ 0 <= cam[h][w].num
                              /\ cam[h][w].num <= cam[h][w].den
                  /\ amax(raw) = amin(raw)
                        => \A h \in Rows, w \in Cols : cam[h][w].num = 0
      ]_vars

\* A call whose map before the normalisation was constant and not zero
C17_Witness ==
    /\ last.op = "GradCAM.__call__"
    /\ last.exc = ""
    /\ LET self == gradcam.instances[last.args[2]]
           raw == relu(WeightedSum(Get(self.gradients).value, Get(self.activations).value))
       IN  amax(raw) = amin(raw) /\ amax(raw) > 0
    /\ \A h \in Rows, w \in Cols : Get(last.ret)[h][w].num = 0

\* C18: in any sequence of calls on one GradCAM instance, a call with a
\* class index of the model (or none) completes without an exception and
\* computes its map from the activations and the gradients its own forward
\* and backward pass put into the instance, whatever earlier calls left.
C18_CallsUseOwnCaptures ==
    [][ ( last'.op = "GradCAM.__call__" /\ last'.args[4] \in {None} \cup {Some(k) : k \in ClassIds} )
        => LET call == gradcam'.sessions[last'.args[1]]
               self == gradcam'.instances[last'.args[2]]
           IN  /\ last'.exc = ""
               /\ call.id = gradcam.ncalls + 1
               /\ call.activations_of = call.id
               /\ call.gradients_of = call.id
               /\ Get(self.activations).value = last'.args[3]
               /\ Get(self.gradients).value = Gradient(gradcam.head, Get(call.class_idx))
               /\ last'.ret = Some(Cam(Gradient(gradcam.head, Get(call.class_idx)), last'.args[3]))
      ]_vars

\* A second call on the instance after its first
C18_Witness ==
    /\ last.op = "GradCAM.__call__"
    /\ last.exc = ""
    /\ gradcam.ncalls = 2
    /\ Len(gradcam.instances) = 1
    /\ gradcam.sessions["A"].activations_of = 2
    /\ gradcam.sessions["A"].gradients_of = 2
    /\ \E h \in Rows, w \in Cols : Get(last.ret)[h][w].num > 0

\* C19: a Grad-CAM call on the shared model between whose steps no step of
\* another call falls computes its map from the tensors captured during that
\* call; calls whose steps interleave can compute from the other call's
\* captures (C19_Witness is such an interleaving).
C19_SerializedCallsUseOwnTensors ==
    [][ ( last'.op = "GradCAM.__call__" /\ ~gradcam'.sessions[last'.args[1]].overlapped )
        => LET call == gradcam'.sessions[last'.args[1]]
           IN  /\ call.activations_of = call.id
               /\ call.gradients_of = call.id
               /\ call.ret = Some(Cam(Gradient(gradcam.head, Get(call.class_idx)),
                                      Get(call.x)))
      ]_vars

\* Each thread calls the GradCAM instance it constructed on the shared
\* model; one call returned a map made of its own gradients and the
\* activations of the other thread's call, which is not the map of its own
\* input
C19_Witness ==
    \E s \in Sessions :
        LET call == gradcam.sessions[s]
        IN  /\ last.op = "GradCAM.__call__" /\ last.args[1] = s
            /\ \E t \in Sessions : gradcam.sessions[t].inst \notin {0, call.inst}
            /\ call.overlapped
            /\ call.gradients_of = call.id
            /\ call.activations_of # call.id
            /\ call.ret # Some(Cam(Gradient(gradcam.head, Get(call.class_idx)), Get(call.x)))

Abs(n) == IF n < 0 THEN -n ELSE n

\* C20: for an image of w x h pixels the centre crop of the prediction page
\* and of the batch preprocessor is the box (left, top, left + m, top + m)
\* with m = min(w, h), left = (w - m) // 2, top = (h - m) // 2: a square of
\* side m inside the image whose opposite margins differ by at most one
\* pixel, the whole image when w = h, and the same box in both places.
C20_CenterCropBox ==
    last.op \in {"center_crop_resize", "CenterCropSquare"} =>
        LET w == last.args[1]
            h == last.args[2]
            m == IF w < h THEN w ELSE h
            box == Get(last.ret).box
        IN  /\ box = <<(w - m) \div 2, (h - m) \div 2, (w - m) \div 2 + m, (h - m) \div 2 + m>>
            /\ box[3] - box[1] = m /\ box[4] - box[2] = m
            /\ 0 <= box[1] /\ box[3] <= w
            /\ 0 <= box[2] /\ box[4] <= h
            /\ Abs(box[1] - (w - box[3])) <= 1
            /\ Abs(box[2] - (h - box[4])) <= 1
            /\ w = h => box = <<0, 0, w, h>>
            /\ Get(last.ret).cropped = <<m, m>>
            /\ PreprocessBox(w, h) = CenterCropSquareBox(w, h)

\* The page cropped a wide image whose margins cannot be equal
C20_Witness ==
    /\ last.op = "CenterCropSquare"
    /\ last.args[1] = last.args[2] + 3
    /\ Get(last.ret).box[1] + 1 = last.args[1] - Get(last.ret).box[3]


\* The predictions created at or after now - days, counted per creation date,
\* dates ascending, one entry per date with such a prediction
CreatedSince(days) ==
    LET Since(r) == r.created_at >= now - days * TicksPerDay
    IN  SelectSeq(predictions, Since)

\* C21: get_daily_predictions(days) counts every prediction created at or
\* after now - days and none created before that cutoff, each under its
\* creation date, dates ascending, one entry per date with such a prediction.
C21_DailyCountsSinceCutoff ==
    last.op = "get_daily_predictions" =>
        Get(last.ret) = GroupByDate(CreatedSince(last.args[1]))


\* The largest validation accuracy over the completed epochs
MaxAcc == CHOOSE a \in Range(training.accs) : \A b \in Range(training.accs) : b <= a

\* The checkpoint holds the first epoch that reached the largest accuracy
CheckpointIsBest ==
    /\ IsSome(training.checkpoint)
    /\ LET k == Get(training.checkpoint)
       IN  /\ training.accs[k] = MaxAcc
           /\ \A j \in 1 .. (k - 1) : training.accs[j] < MaxAcc
    /\ IsSome(classifier.weights)

\* C22: once the epoch loop has run an epoch, a checkpoint exists and holds
\* the weights of the first epoch that reached the largest validation accuracy
\* of the completed epochs; best_acc never decreases, an epoch with lower or
\* equal accuracy does not overwrite the checkpoint, and the class names are
\* written whenever the weights are.
C22_CheckpointHoldsBestEpoch ==
    /\ [](training.epoch >= 1 => CheckpointIsBest)
    /\ [](training.names_epoch = training.checkpoint)
    /\ [][/\ last'.op = "train.epoch" => training'.best_acc >= training.best_acc
          /\ (last'.op = "train.epoch" /\ last'.args[2] <= training.best_acc)
                => training'.checkpoint = training.checkpoint]_vars

\* C23: a connection whose get_conn scope was left is committed and closed,
\* whether the body completed, the body raised or the commit itself failed.
C23_ScopeExitCommitsAndCloses ==
    \A i \in DOMAIN conns :
        conns[i].scope = "exited" => conns[i].committed /\ ~conns[i].open


\* The five requirements in the order of the checks, and their messages
Requirements(password) ==
    <<Len(password) >= MIN_PASSWORD_LEN,
      HasChar(password, UpperChars),
      HasChar(password, LowerChars),
      HasChar(password, DigitChars),
      HasChar(password, SpecialChars)>>

RequirementMessages ==
    <<"at least 8 characters", "at least 1 uppercase letter", "at least 1 lowercase letter",
      "at least 1 number", "at least 1 special character">>

FirstFailing(password) ==
    CHOOSE i \in 1..5 :
        /\ ~Requirements(password)[i]
        /\ \A j \in 1..(i - 1) : Requirements(password)[j]

\* C24: a password of at most 128 characters is valid exactly when it meets
\* the five requirements (length, uppercase, lowercase, digit, special
\* character); a rejected one gets the message of the first requirement it
\* fails, in that order; a password of more than 128 characters is rejected.
C24_PasswordPolicy ==
    last.op = "validate_password" =>
        LET password == last.args
            result == Get(last.ret)
            meets == \A i \in 1..5 : Requirements(password)[i]
        IN  IF Len(password) > MAX_PASSWORD_LEN THEN result[1] = FALSE
            ELSE /\ result[1] = meets
                 /\ ~meets => result[2] = RequirementMessages[FirstFailing(password)]

\* A password without a capital and without a digit is told about the capital
C24_Witness ==
    /\ last.op = "validate_password"
    /\ Len(last.args) >= MIN_PASSWORD_LEN /\ Len(last.args) <= MAX_PASSWORD_LEN
    /\ ~HasChar(last.args, UpperChars) /\ ~HasChar(last.args, DigitChars)
    /\ Get(last.ret) = <<FALSE, "at least 1 uppercase letter">>


\* C25: every username the registration form hands to create_user has
\* between 3 and 30 characters, all of them letters, digits or underscores.
C25_CreateUserUsernames ==
    (last.op = "show_register_form" /\ last.ret.create_user_called) =>
        LET new_username == last.args[1]
        IN  /\ Len(new_username) >= MIN_USERNAME_LEN
            /\ Len(new_username) <= MAX_USERNAME_LEN
            /\ Range(new_username) \subseteq
                  UpperChars \cup LowerChars \cup DigitChars \cup {"_"}


\* C26: after Incorrect (or Uncertain), the run started by the click on
\* Submit Feedback calls submit_prediction_feedback: it stores a feedback row
\* of that type.
C26_SubmitClickStoresFeedback ==
    [][(last'.op = "prediction_page" /\ last'.args[1] = "submit") =>
          /\ Len(feedback') = Len(feedback) + 1
          /\ feedback'[Len(feedback')].feedback_type \in {"incorrect", "uncertain"}]_vars

\* C27: a run of the page script that no new upload started inserts no
\* predictions row, so the rows are as many as the uploads analysed.
C27_RerunInsertsNoRow ==
    [][(last'.op = "prediction_page" /\ last'.args[1] # "upload") =>
          Len(predictions') = Len(predictions)]_vars


\* C28: get_low_confidence_predictions returns each prediction below the
\* threshold at most once, in ascending order of confidence, and at most
\* limit entries, however many feedback rows a prediction has.
C28_LowConfidenceOncePerPrediction ==
    last.op = "get_low_confidence_predictions" =>
        LET rows == Get(last.ret)
        IN  /\ \A i, j \in DOMAIN rows : rows[i].id = rows[j].id => i = j
            /\ \A i \in DOMAIN rows : Get(rows[i].confidence) < last.args[1]
            /\ \A i, j \in DOMAIN rows :
                  i < j => Get(rows[i].confidence) <= Get(rows[j].confidence)
            /\ Len(rows) <= last.args[2]


\* C29: in one session, authenticated becomes true only in a login whose
\* authenticate_user call returned True, and then username is the name that
\* passed it and stays so; logout resets both; a prediction is logged only
\* while authenticated, under that username; the admin dashboard runs its
\* analytics only for a username of the admin list.
C29_SessionAuthentication ==
    /\ [](page.authenticated => IsSome(page.username))
    /\ [][/\ (page'.authenticated /\ ~page.authenticated) =>
                /\ last'.op = "show_login_form"
                /\ AuthResult(last'.args[1], last'.args[2])
                /\ page'.username = Some(last'.args[1])
          /\ (page'.authenticated /\ page.authenticated) => page'.username = page.username
          /\ (last'.op = "home_page" /\ last'.args[1] = "logout") =>
                ~page'.authenticated /\ page'.username = None
          /\ Len(predictions') > Len(predictions) =>
                /\ page.authenticated
                /\ predictions'[Len(predictions')].user = page.username
          /\ (last'.op = "admin_dashboard" /\ IsSome(last'.ret)) =>
                /\ page.authenticated
                /\ Get(page.username) \in admin_users]_vars

\* The admin has logged in after another user logged out, and the dashboard ran
C29_Witness ==
    /\ last.op = "admin_dashboard" /\ IsSome(last.ret)
    /\ page.authenticated /\ page.username = Some(U_admin)
    /\ \E i \in DOMAIN activity : activity[i].username = U_alice


\* register_forward_hook / register_full_backward_hook: every constructed
\* GradCAM instance has put one hook of each kind on the target layer of the
\* cached model, and no hook is ever removed
ForwardHookCount == Len(gradcam.instances)
BackwardHookCount == Len(gradcam.instances)

\* C30: however many predictions were rendered, the target layer of the
\* cached model carries at most one forward and one backward hook.
C30_HooksDoNotAccumulate ==
    ForwardHookCount <= 1 /\ BackwardHookCount <= 1

====
